---- MODULE Spec2Model ----
(***************************************************************************)
(* Model of the streaming chat relay of graph-llm-backend                  *)
(* (src/src/chat/chat.controller.ts): the message normalizer, the          *)
(* tool-call assembler, the side-effect dispatcher with image retry, the   *)
(* SSE relay state machine and the telemetry recorder calls; of the        *)
(* non-streaming chat operation; of StorageService.uploadImage; of the     *)
(* document parsing endpoint (DocumentController, DocumentParserService);  *)
(* of HttpExceptionFilter.catch; and of the audio-streaming path of        *)
(* TtsController.textToSpeech.                                             *)
(*                                                                         *)
(* JavaScript strings are TLA+ strings (Len, \o and SubSeq act on them).   *)
(* The value `undefined`/`null` of an optional string is the sentinel      *)
(* Undefined, which no program string equals.                              *)
(***************************************************************************)
EXTENDS Integers, Sequences, FiniteSets, TLC

\* ------------------------------------------------------------------ bounds

\* Upstream chunks one stream may deliver before it ends or fails.
MaxChunks == 3

\* Messages in a request body of the normalizer specification.
MaxMsgs == 2

\* Upstream chunks per stream when two requests run interleaved.
MaxPairChunks == 2

\* ------------------------------------------------------- JavaScript values

Undefined == "<undefined>"

\* JavaScript truthiness of an optional string.
Truthy(v) == v # Undefined /\ v # ""

\* `a ?? b`
Coalesce(a, b) == IF a = Undefined THEN b ELSE a

\* `a || b` on optional strings
OrElse(a, b) == IF Truthy(a) THEN a ELSE b

\* `${v}` inside a template literal
Interp(v) == IF v = Undefined THEN "undefined" ELSE v

\* String.prototype.startsWith
StartsWith(s, p) == Len(s) >= Len(p) /\ SubSeq(s, 1, Len(p)) = p

\* String.prototype.includes
Includes(s, sub) ==
  \E i \in 1..(Len(s) - Len(sub) + 1) : SubSeq(s, i, i + Len(sub) - 1) = sub

\* String.prototype.trim, for strings padded with blanks
RECURSIVE TrimLeft(_)
TrimLeft(s) ==
  IF Len(s) > 0 /\ SubSeq(s, 1, 1) = " " THEN TrimLeft(SubSeq(s, 2, Len(s))) ELSE s

RECURSIVE TrimRight(_)
TrimRight(s) ==
  IF Len(s) > 0 /\ SubSeq(s, Len(s), Len(s)) = " "
  THEN TrimRight(SubSeq(s, 1, Len(s) - 1))
  ELSE s

Trim(s) == TrimRight(TrimLeft(s))

\* `process.env.X?.trim()`
EnvTrim(v) == IF v = Undefined THEN Undefined ELSE Trim(v)

\* ------------------------------------------------------ message normalizer
\* A message is [role, content]; content is [kind |-> "string", text] or
\* [kind |-> "parts", parts]: the tag stands for `typeof content === 'string'`
\* and Array.isArray(content).  A wire image part is
\* [type |-> "image_url", image_url |-> [url, detail]]; detail is Undefined
\* when the optional property reads undefined.

Roles == {"system", "user", "assistant"}

Details == {Undefined, "auto", "low", "high"}

StringContent(t) == [kind |-> "string", text |-> t]

PartsContent(ps) == [kind |-> "parts", parts |-> ps]

\* Reading `part.image_url.url` throws a TypeError when the part has no
\* image_url object.
PartThrows(part) == part.type # "text" /\ "image_url" \notin DOMAIN part

\* One content part, wire shape to SDK shape (snake_case -> camelCase).
TransformPart(part) ==
  IF part.type = "text"
  THEN [type |-> "text", text |-> part.text]
  ELSE [type |-> "image_url",
        imageUrl |-> [url |-> part.image_url.url, detail |-> part.image_url.detail]]

TransformMessage(msg) ==
  IF msg.role \in {"user", "assistant"}
  THEN IF msg.content.kind = "string"
       THEN msg
       ELSE [msg EXCEPT !.content = PartsContent(
               [i \in 1..Len(msg.content.parts) |-> TransformPart(msg.content.parts[i])])]
  ELSE msg

transformMessages(messages) ==
  [i \in 1..Len(messages) |-> TransformMessage(messages[i])]

\* transformMessages raises when some part of a user/assistant message has
\* neither the text tag nor an image_url object.
TransformThrows(messages) ==
  \E i \in 1..Len(messages) :
    /\ messages[i].role \in {"user", "assistant"}
    /\ messages[i].content.kind = "parts"
    /\ \E j \in 1..Len(messages[i].content.parts) : PartThrows(messages[i].content.parts[j])

\* A conversion back that forgets the detail hint.
ConvertPartDropDetail(part) ==
  IF part.type = "text"
  THEN [type |-> "text", text |-> part.text]
  ELSE [type |-> "image_url",
        image_url |-> [url |-> part.imageUrl.url, detail |-> Undefined]]

\* One content part, SDK shape back to wire shape.
ConvertPart(part) ==
  IF part.type = "text"
  THEN [type |-> "text", text |-> part.text]
  ELSE [type |-> "image_url",
        image_url |-> [url |-> part.imageUrl.url, detail |-> part.imageUrl.detail]]

ConvertMessage(msg) ==
  IF msg.role \in {"user", "assistant"} /\ msg.content.kind = "parts"
  THEN [msg EXCEPT !.content = PartsContent(
          [i \in 1..Len(msg.content.parts) |-> ConvertPart(msg.content.parts[i])])]
  ELSE msg

convertMessagesToAPIFormat(messages) ==
  [i \in 1..Len(messages) |-> ConvertMessage(messages[i])]

\* The recognized wire shape, over a small vocabulary.
WireTexts == {"", "Hello"}

WireUrls == {"https://img/1.png"}

WireParts ==
  [type : {"text"}, text : WireTexts]
    \cup [type : {"image_url"}, image_url : [url : WireUrls, detail : Details]]

\* A content part whose type is neither of the two tags.
UnknownPart == [type |-> "input_audio", data |-> "UklGRg=="]

WirePartLists == {<<>>, <<UnknownPart>>} \cup {<<p>> : p \in WireParts} \cup
  {<<p, q>> : p \in [type : {"text"}, text : {"Hello"}],
              q \in [type : {"image_url"}, image_url : [url : WireUrls, detail : Details]]}

WireContents ==
  {StringContent(t) : t \in WireTexts} \cup {PartsContent(ps) : ps \in WirePartLists}

WireMessages == [role : Roles, content : WireContents]

RECURSIVE SeqsUpTo(_, _)
SeqsUpTo(S, n) ==
  IF n = 0 THEN {<<>>}
  ELSE LET shorter == SeqsUpTo(S, n - 1)
       IN shorter \cup {Append(q, x) : q \in {r \in shorter : Len(r) = n - 1}, x \in S}

\* ------------------------------------------------------------- JSON.parse
\* JSON.parse on the argument buffers the model can assemble: a flat object
\* of string members, `{"k":"v",...}`; every other text is a SyntaxError.
\* The parsed object is the set of its <<key, value>> members.

Quote == "\""

CharAt(s, i) == IF i >= 1 /\ i <= Len(s) THEN SubSeq(s, i, i) ELSE ""

\* Position of the first quote at or after `from`, 0 when there is none.
NextQuote(s, from) ==
  LET hits == {i \in from..Len(s) : CharAt(s, i) = Quote}
  IN IF hits = {} THEN 0 ELSE CHOOSE i \in hits : \A j \in hits : i <= j

RECURSIVE ParseMembers(_, _)
ParseMembers(s, acc) ==
  LET q1 == NextQuote(s, 2)
      q2 == NextQuote(s, q1 + 3)
      key == SubSeq(s, 2, q1 - 1)
      val == SubSeq(s, q1 + 3, q2 - 1)
      rest == SubSeq(s, q2 + 1, Len(s))
      more == {m \in acc : m[1] # key} \cup {<<key, val>>}
  IN IF CharAt(s, 1) # Quote \/ q1 = 0 THEN [ok |-> FALSE, obj |-> {}]
     ELSE IF CharAt(s, q1 + 1) # ":" \/ CharAt(s, q1 + 2) # Quote \/ q2 = 0
     THEN [ok |-> FALSE, obj |-> {}]
     ELSE IF rest = "" THEN [ok |-> TRUE, obj |-> more]
     ELSE IF CharAt(rest, 1) = "," THEN ParseMembers(SubSeq(rest, 2, Len(rest)), more)
     ELSE [ok |-> FALSE, obj |-> {}]

ParseJSON(s) ==
  IF Len(s) < 2 \/ CharAt(s, 1) # "{" \/ CharAt(s, Len(s)) # "}"
  THEN [ok |-> FALSE, obj |-> {}]
  ELSE IF Len(s) = 2 THEN [ok |-> TRUE, obj |-> {}]
  ELSE ParseMembers(SubSeq(s, 2, Len(s) - 1), {})

\* `args.key` on a parsed object.
Prop(obj, key) ==
  IF \E m \in obj : m[1] = key THEN (CHOOSE m \in obj : m[1] = key)[2] ELSE Undefined

JsonSyntaxError == "Unexpected end of JSON input"

\* ------------------------------------------------------- upstream inputs

\* OPENROUTER_API_KEY as the process environment may hold it.
EnvKeys == {Undefined, "", "  ", " sk-or-1 "}

\* What openRouter.chat.send can do: resolve to a stream, or reject with an
\* Error (isError) or with a value that is no Error.
OpenOutcomes ==
  {[opened |-> TRUE, isError |-> FALSE, message |-> ""]} \cup
  [opened : {FALSE}, isError : {TRUE},
   message : {"401 User not found", "SAFETY_CHECK_TYPE_DATA_LEAKAGE", "Rate limit exceeded"}]
  \cup {[opened |-> FALSE, isError |-> FALSE, message |-> "boom"]}

\* What the stream iterator can raise while it is consumed.
StreamErrors ==
  {[isError |-> TRUE, message |-> "socket hang up"],
   [isError |-> FALSE, message |-> "boom"]}

\* `toolCallDelta.index` when the fragment carries none.
NoIndex == -1

Fragment(i, id, name, args) == [index |-> i, id |-> id, name |-> name, arguments |-> args]

ArgsOpen == "{\"prompt\":"

ArgsClose == "\"a cat\"}"

ArgsVideo == "{\"videoId\":\"v1\"}"

\* Tool-call delta fragments: opening fragments, continuations that omit or
\* blank the id and the name, a fragment without index, one without function.
Fragments ==
  {Fragment(0, "call_a", "generate_image", ""),
   Fragment(0, Undefined, Undefined, ArgsOpen),
   Fragment(0, "", "", ArgsClose),
   Fragment(1, "call_b", "show_youtube_video", ArgsVideo),
   Fragment(1, "call_c", "generate_image", ArgsOpen \o ArgsClose),
   Fragment(0, Undefined, "show_youtube_video", "{}"),
   Fragment(NoIndex, Undefined, "get_weather", "{}"),
   Fragment(1, Undefined, Undefined, Undefined)}

NoUsage == <<>>

Usage(p, c) == <<[prompt_tokens |-> p, completion_tokens |-> c, total_tokens |-> p + c]>>

Chunk(hasChoice, usage, fr, reasoning, content, tcs) ==
  [hasChoice |-> hasChoice, usage |-> usage, finish_reason |-> fr,
   reasoning |-> reasoning, content |-> content, tool_calls |-> tcs]

\* Chunks without a first choice (usage-only).
NoChoiceChunks ==
  {Chunk(FALSE, Usage(7, 5), Undefined, Undefined, Undefined, <<>>)}

\* Chunks carrying reasoning and/or content deltas, a finish reason, usage.
TextChunks ==
  {Chunk(TRUE, NoUsage, Undefined, Undefined, c, <<>>) : c \in {"", "Hel"}}
  \cup {Chunk(TRUE, NoUsage, Undefined, "hm", c, <<>>) : c \in {Undefined, "Hel"}}
  \cup {Chunk(TRUE, NoUsage, "stop", Undefined, "lo", <<>>),
        Chunk(TRUE, Usage(3, 2), "tool_calls", Undefined, Undefined, <<>>)}

\* Chunks carrying tool-call fragments.
ToolChunks ==
  {Chunk(TRUE, NoUsage, Undefined, Undefined, Undefined, <<f>>) : f \in Fragments}
  \cup {Chunk(TRUE, NoUsage, Undefined, Undefined, Undefined,
              <<Fragment(1, "call_b", "show_youtube_video", ArgsVideo),
                Fragment(0, "call_a", "generate_image", ArgsOpen \o ArgsClose)>>)}

\* The upstream streams the relay is checked against, by kind: a stream of
\* text with at most complete tool calls, or a stream of tool-call fragments
\* with some text.
StreamKinds == {"text", "tools"}

\* The streams of two interleaved requests: a content delta, a reasoning
\* delta with usage and finish reason, a complete generate_image call.
PairChunks ==
  {Chunk(TRUE, NoUsage, Undefined, Undefined, "Hel", <<>>),
   Chunk(TRUE, Usage(3, 2), "stop", "hm", Undefined, <<>>),
   Chunk(TRUE, NoUsage, Undefined, Undefined, Undefined,
         <<Fragment(1, "call_c", "generate_image", ArgsOpen \o ArgsClose)>>)}

ChunksOf(kind) ==
  IF kind = "text"
  THEN NoChoiceChunks \cup TextChunks
       \cup {Chunk(TRUE, NoUsage, Undefined, Undefined, Undefined,
                   <<Fragment(1, "call_c", "generate_image", ArgsOpen \o ArgsClose)>>)}
  ELSE IF kind = "tools"
  THEN ToolChunks \cup {Chunk(TRUE, NoUsage, Undefined, Undefined, "Hel", <<>>)}
  ELSE PairChunks

\* The chunks a stream of the kind delivers at most.
ChunkLimit(kind) == IF kind = "pair" THEN MaxPairChunks ELSE MaxChunks

\* What one request to the image peer can yield: an HTTP-OK body whose
\* choices[0].message.images[0].image_url.url is `url` (Undefined: missing),
\* a non-OK status with a body text, or the 60 s abort.
ImageResponses ==
  [kind : {"ok"}, url : {"https://cdn/i.png", "data:image/png;base64,AA", Undefined, "ftp://x"}]
  \cup {[kind |-> "not_ok", url |-> "quota"], [kind |-> "timeout", url |-> Undefined]}

\* The image peer's answers when two requests run interleaved.
ImageResponsesOf(kind) ==
  IF kind = "pair"
  THEN {[kind |-> "ok", url |-> "https://cdn/i.png"], [kind |-> "ok", url |-> Undefined]}
  ELSE ImageResponses

\* Request bodies of the relay specification: a well-formed conversation, and
\* one whose user message holds an image part without its image_url object.
StreamBodies ==
  {<<[role |-> "system", content |-> StringContent("Hello")],
     [role |-> "user", content |-> PartsContent(
        <<[type |-> "text", text |-> "Hello"],
          [type |-> "image_url",
           image_url |-> [url |-> "https://img/1.png", detail |-> Undefined]]>>)]>>,
   <<[role |-> "user", content |-> PartsContent(<<[type |-> "image_url"]>>)]>>}

\* ------------------------------------------------------------------ state

VARIABLES
  streamKind,       \* the kind of upstream stream of this request (input)
  pc,               \* position of the handler: start, open, streaming, dispatch,
                    \* imagefetch, done, threw, idle
  envKey,           \* process.env.OPENROUTER_API_KEY
  body,             \* body.messages
  transformed,      \* transformedMessages
  headerSets,       \* Len(frames) at each setting of the event-stream headers
  frames,           \* the payloads of the res.write calls, in order
  ended,            \* Len(frames) at each res.end() call
  captured,         \* the properties of each captureEvent('message_sent') call
  logData,          \* the fields of logData the handler sets after the start
  fullResponse, fullReasoning, chunkCount, usageData, finishReason,
  toolCallsInProgress, \* the Map's entries in insertion (= iteration) order
  dispatchPos,      \* position of the dispatch loop in the Map's iteration
  retryCount,       \* generateImage's attempt counter
  imagePrompt,      \* args.prompt of the running generateImage call
  imageCalls,       \* per generateImage call: prompt, responses seen, requests sent
  consumed,         \* the upstream chunks read so far (history)
  clientConnected,  \* whether the client still holds the connection
  closedAt,         \* progress of the relay at the moment the client left
  sent,             \* the openRouter.chat.send calls made so far
  normIn, normMid, normOut, normPc, \* the normalizer specification's values
  chatCall,         \* one call of the non-streaming chat operation
  upload,           \* one call of StorageService.uploadImage
  document,         \* one call of DocumentController.parseDocument
  filtered,         \* one call of HttpExceptionFilter.catch
  tts,              \* one call of TtsController.textToSpeech
  reqs,             \* the handler-local state of two interleaved streamChat requests
  posthogClient,    \* the module-level PostHog client of posthog.service.ts
  posthogEnv        \* process.env.POSTHOG_API_KEY

vars ==
  <<streamKind, pc, envKey, body, transformed, headerSets, frames, ended, captured, logData,
    fullResponse, fullReasoning, chunkCount, usageData, finishReason,
    toolCallsInProgress, dispatchPos, retryCount, imagePrompt, imageCalls,
    consumed, clientConnected, closedAt, sent, normIn, normMid, normOut, normPc,
    chatCall, upload, document, filtered, tts, reqs, posthogClient, posthogEnv>>

relayVars ==
  <<streamKind, pc, envKey, body, transformed, headerSets, frames, ended, captured, logData,
    fullResponse, fullReasoning, chunkCount, usageData, finishReason,
    toolCallsInProgress, dispatchPos, retryCount, imagePrompt, imageCalls,
    consumed, clientConnected, closedAt, sent>>

normVars == <<normIn, normMid, normOut, normPc>>

chatVars == <<chatCall>>

uploadVars == <<upload>>

handlerVars == <<document, filtered, tts>>

pairVars == <<reqs, posthogClient, posthogEnv>>

\* ----------------------------------------------------------------- frames
\* The JSON payload of each SSE frame; JSON.stringify drops a key whose value
\* is undefined.

ContentFrame(c) == [content |-> c]

ReasoningFrame(r) == [reasoning |-> r]

\* An image frame with its URL and prompt exchanged.
ImageFrameSwapped(url, prompt) == [type |-> "image", content |-> prompt, prompt |-> url]

ImageFrame(url, prompt) == [type |-> "image", content |-> url, prompt |-> prompt]

YoutubeFrame(videoId, explanation) ==
  IF videoId = Undefined
  THEN [type |-> "youtube", explanation |-> explanation]
  ELSE [type |-> "youtube", videoId |-> videoId, explanation |-> explanation]

ErrorFrame(msg) == [error |-> msg]

InitErrorFrame(details) == [error |-> "Failed to initialize chat stream", details |-> details]

DoneFrame == [literal |-> "[DONE]"]

\* --------------------------------------------------------- initial states

NoLogData ==
  [error |-> Undefined, noContent |-> FALSE, imageGenerationError |-> Undefined,
   youtubeError |-> Undefined, streamStatus |-> Undefined]

RelayIdle ==
  /\ streamKind = "text"
  /\ pc = "idle" /\ envKey = Undefined /\ body = <<>> /\ transformed = <<>>
  /\ headerSets = <<>> /\ frames = <<>> /\ ended = <<>> /\ captured = <<>>
  /\ logData = NoLogData
  /\ fullResponse = "" /\ fullReasoning = "" /\ chunkCount = 0
  /\ usageData = NoUsage /\ finishReason = Undefined
  /\ toolCallsInProgress = <<>> /\ dispatchPos = 0 /\ retryCount = 0
  /\ imagePrompt = Undefined /\ imageCalls = <<>> /\ consumed = <<>>
  /\ clientConnected = TRUE
  /\ closedAt = [frames |-> 0, chunks |-> 0, dispatches |-> 0, requests |-> 0]
  /\ sent = 0

NormIdle == normIn = <<>> /\ normMid = <<>> /\ normOut = <<>> /\ normPc = "idle"

ChatIdle == chatCall = [pc |-> "idle"]

UploadIdle == upload = [pc |-> "idle"]

DocumentIdle == document = [pc |-> "idle"]

FilterIdle == filtered = [pc |-> "idle"]

TtsIdle == tts = [pc |-> "idle"]

HandlersIdle == DocumentIdle /\ FilterIdle /\ TtsIdle

PairIdle ==
  /\ reqs = [running |-> 0]
  /\ posthogClient = "null"
  /\ posthogEnv = Undefined

\* A request arrives: the environment and the body are the inputs.
Init ==
  /\ streamKind \in StreamKinds
  /\ pc = "start"
  /\ envKey \in EnvKeys
  /\ body \in StreamBodies
  /\ transformed = <<>>
  /\ headerSets = <<>> /\ frames = <<>> /\ ended = <<>> /\ captured = <<>>
  /\ logData = NoLogData
  /\ fullResponse = "" /\ fullReasoning = "" /\ chunkCount = 0
  /\ usageData = NoUsage /\ finishReason = Undefined
  /\ toolCallsInProgress = <<>> /\ dispatchPos = 0 /\ retryCount = 0
  /\ imagePrompt = Undefined /\ imageCalls = <<>> /\ consumed = <<>>
  /\ clientConnected = TRUE
  /\ closedAt = [frames |-> 0, chunks |-> 0, dispatches |-> 0, requests |-> 0]
  /\ sent = 0
  /\ NormIdle /\ ChatIdle /\ UploadIdle /\ HandlersIdle /\ PairIdle

\* ---------------------------------------------------- tool-call assembler

HasIndex(tcs, index) == \E k \in 1..Len(tcs) : tcs[k].index = index

PosOfIndex(tcs, index) == CHOOSE k \in 1..Len(tcs) : tcs[k].index = index

\* An assembler that assigns id and name from every fragment.
MergeFragmentClearing(entry, frag) ==
  [index |-> entry.index,
   id |-> OrElse(frag.id, ""),
   name |-> OrElse(frag.name, ""),
   arguments |-> IF Truthy(frag.arguments)
                 THEN entry.arguments \o frag.arguments
                 ELSE entry.arguments]

\* The entry after one fragment: id and name are overwritten only by a
\* truthy value, the argument buffer is appended to.
MergeFragment(entry, frag) ==
  [index |-> entry.index,
   id |-> IF Truthy(frag.id) THEN frag.id ELSE entry.id,
   name |-> IF Truthy(frag.name) THEN frag.name ELSE entry.name,
   arguments |-> IF Truthy(frag.arguments)
                 THEN entry.arguments \o frag.arguments
                 ELSE entry.arguments]

\* One iteration of `for (const toolCallDelta of toolCalls)`.
Ingest(tcs, frag) ==
  LET index == IF frag.index = NoIndex THEN 0 ELSE frag.index
      created == IF HasIndex(tcs, index)
                 THEN tcs
                 ELSE Append(tcs, [index |-> index, id |-> OrElse(frag.id, ""),
                                   name |-> OrElse(frag.name, ""), arguments |-> ""])
      k == PosOfIndex(created, index)
  IN [created EXCEPT ![k] = MergeFragment(created[k], frag)]

RECURSIVE IngestAll(_, _)
IngestAll(tcs, frags) ==
  IF frags = <<>> THEN tcs ELSE IngestAll(Ingest(tcs, Head(frags)), Tail(frags))

\* ------------------------------------------------------------- telemetry

UsageField(u, f) == IF u = NoUsage THEN <<>> ELSE <<u[1][f]>>

HasTool(tcs, name) == \E k \in 1..Len(tcs) : tcs[k].name = name

\* getPostHogClient: the module-level client is created by the first call
\* made while POSTHOG_API_KEY is set, and returned as it is afterwards.
GetPostHogClient(client, key) ==
  IF client # "null" THEN client
  ELSE IF ~Truthy(EnvTrim(key)) THEN "null"
  ELSE "client"

\* The properties of the success-path captureEvent call.
SuccessEvent ==
  [event |-> "message_sent", success |-> TRUE,
   messageCount |-> Len(transformed),
   responseLength |-> Len(fullResponse), reasoningLength |-> Len(fullReasoning),
   chunkCount |-> chunkCount, finishReason |-> finishReason,
   toolCallCount |-> Len(toolCallsInProgress),
   inputTokens |-> UsageField(usageData, "prompt_tokens"),
   outputTokens |-> UsageField(usageData, "completion_tokens"),
   totalTokens |-> UsageField(usageData, "total_tokens"),
   hasImageGeneration |-> HasTool(toolCallsInProgress, "generate_image"),
   hasYoutubeEmbed |-> HasTool(toolCallsInProgress, "show_youtube_video")]

\* A failure record that reports success.
FailureEventMarkedSuccess(errorMessage) ==
  [event |-> "message_sent", success |-> TRUE, error |-> errorMessage,
   messageCount |-> Len(transformed),
   responseLength |-> Len(fullResponse), reasoningLength |-> Len(fullReasoning),
   chunkCount |-> chunkCount,
   inputTokens |-> UsageField(usageData, "prompt_tokens"),
   outputTokens |-> UsageField(usageData, "completion_tokens"),
   totalTokens |-> UsageField(usageData, "total_tokens")]

\* The properties of the mid-stream catch block's captureEvent call.
FailureEvent(errorMessage) ==
  [event |-> "message_sent", success |-> FALSE, error |-> errorMessage,
   messageCount |-> Len(transformed),
   responseLength |-> Len(fullResponse), reasoningLength |-> Len(fullReasoning),
   chunkCount |-> chunkCount,
   inputTokens |-> UsageField(usageData, "prompt_tokens"),
   outputTokens |-> UsageField(usageData, "completion_tokens"),
   totalTokens |-> UsageField(usageData, "total_tokens")]

\* ------------------------------------------------------------ the relay

MissingKeyMessage == "OPENROUTER_API_KEY environment variable is not set or is empty"

\* A handler that sets the event-stream headers a second time.
SetHeadersTwice(sets, written) == Append(Append(sets, Len(written)), Len(written))

\* The three res.setHeader calls, as one setting of the event-stream headers.
SetHeaders(sets, written) == Append(sets, Len(written))

\* A credential check that does not trim the variable.
KeyMissingUntrimmed(key) == ~Truthy(key)

\* `!apiKey || apiKey.length === 0` on the trimmed variable.
KeyMissing(key) == ~Truthy(EnvTrim(key))

\* streamChat up to its first await: headers, credential check, normalizing.
Begin ==
  /\ pc = "start"
  /\ headerSets' = SetHeaders(headerSets, frames)
  /\ IF KeyMissing(envKey)
     THEN /\ logData' = [logData EXCEPT !.error = MissingKeyMessage]
          /\ frames' = Append(frames, InitErrorFrame(MissingKeyMessage))
          /\ ended' = Append(ended, Len(frames'))
          /\ pc' = "done"
          /\ UNCHANGED transformed
     ELSE IF TransformThrows(body)
     THEN /\ pc' = "threw"
          /\ UNCHANGED <<logData, frames, ended, transformed>>
     ELSE /\ transformed' = transformMessages(body)
          /\ pc' = "open"
          /\ UNCHANGED <<logData, frames, ended>>
  /\ UNCHANGED <<streamKind, envKey, body, captured, fullResponse, fullReasoning, chunkCount,
                 usageData, finishReason, toolCallsInProgress, dispatchPos,
                 retryCount, imagePrompt, imageCalls, consumed, clientConnected,
                 closedAt, sent>>
  /\ UNCHANGED <<normVars, chatVars, uploadVars, handlerVars, pairVars>>

\* The rewriting of the stream-open failure message.
OpenErrorMessage(o) ==
  LET errorMessage == IF o.isError THEN o.message ELSE "Unknown error"
  IN IF Includes(errorMessage, "User not found")
     THEN "Invalid or missing OpenRouter API key. Please check your OPENROUTER_API_KEY environment variable."
     ELSE IF Includes(errorMessage, "SAFETY_CHECK_TYPE_DATA_LEAKAGE")
     THEN "Content was flagged by the AI provider's safety filter. This has been logged and will be retried with a different format."
     ELSE errorMessage

\* `await openRouter.chat.send(...)` and its catch block.
OpenStream ==
  /\ pc = "open"
  /\ sent' = sent + 1
  /\ \E o \in OpenOutcomes :
       IF o.opened
       THEN /\ pc' = "streaming"
            /\ UNCHANGED <<logData, frames, ended>>
       ELSE /\ logData' = [logData EXCEPT !.error = OpenErrorMessage(o)]
            /\ frames' = Append(frames, InitErrorFrame(OpenErrorMessage(o)))
            /\ ended' = Append(ended, Len(frames'))
            /\ pc' = "done"
  /\ UNCHANGED <<streamKind, envKey, body, transformed, headerSets, captured, fullResponse,
                 fullReasoning, chunkCount, usageData, finishReason,
                 toolCallsInProgress, dispatchPos, retryCount, imagePrompt,
                 imageCalls, consumed, clientConnected, closedAt>>
  /\ UNCHANGED <<normVars, chatVars, uploadVars, handlerVars, pairVars>>

\* A buffer that is assigned instead of appended to.
AccumulateReplace(full, delta) ==
  IF Truthy(Coalesce(delta, "")) THEN delta ELSE full

\* `if (delta) full += delta` for the reasoning and the content buffers.
Accumulate(full, delta) ==
  IF Truthy(Coalesce(delta, "")) THEN full \o delta ELSE full

\* A relay that forwards the content delta ahead of the reasoning delta.
ChunkFramesContentFirst(chunk) ==
  (IF Truthy(Coalesce(chunk.content, ""))
   THEN <<ContentFrame(chunk.content)>> ELSE <<>>)
  \o (IF Truthy(Coalesce(chunk.reasoning, ""))
      THEN <<ReasoningFrame(chunk.reasoning)>> ELSE <<>>)

\* The frames one chunk's first choice makes the relay write.
ChunkFrames(chunk) ==
  (IF Truthy(Coalesce(chunk.reasoning, ""))
   THEN <<ReasoningFrame(chunk.reasoning)>> ELSE <<>>)
  \o (IF Truthy(Coalesce(chunk.content, ""))
      THEN <<ContentFrame(chunk.content)>> ELSE <<>>)

\* A relay that looks for usage only in chunks that carry a choice.
UpdateUsageChoiceOnly(current, chunk) ==
  IF chunk.hasChoice /\ chunk.usage # NoUsage THEN chunk.usage ELSE current

\* `if (chunk.usage) usageData = chunk.usage`, ahead of the choice test.
UpdateUsage(current, chunk) ==
  IF chunk.usage # NoUsage THEN chunk.usage ELSE current

\* A loop that a chunk with a finish reason leaves for the dispatch.
AfterChunkStopOnFinish(chunk) ==
  IF chunk.hasChoice /\ Truthy(chunk.finish_reason) THEN "dispatch" ELSE "streaming"

\* Where the handler stands after one chunk: the loop goes on to the next
\* read, whatever the chunk carried (the finish reason is only recorded).
AfterChunk(chunk) == "streaming"

\* One iteration of `for await (const chunk of stream)`.
ReadChunk ==
  /\ pc = "streaming"
  /\ chunkCount < ChunkLimit(streamKind)
  /\ \E chunk \in ChunksOf(streamKind) :
       /\ consumed' = Append(consumed, chunk)
       /\ pc' = AfterChunk(chunk)
       /\ dispatchPos' = IF pc' = "dispatch" THEN 1 ELSE dispatchPos
       /\ chunkCount' = chunkCount + 1
       /\ usageData' = UpdateUsage(usageData, chunk)
       /\ IF ~chunk.hasChoice
          THEN UNCHANGED <<finishReason, fullReasoning, fullResponse, frames,
                           toolCallsInProgress>>
          ELSE /\ finishReason' = IF Truthy(chunk.finish_reason)
                                  THEN chunk.finish_reason ELSE finishReason
               /\ fullReasoning' = Accumulate(fullReasoning, chunk.reasoning)
               /\ fullResponse' = Accumulate(fullResponse, chunk.content)
               /\ frames' = frames \o ChunkFrames(chunk)
               /\ toolCallsInProgress' = IngestAll(toolCallsInProgress, chunk.tool_calls)
  /\ UNCHANGED <<streamKind, envKey, body, transformed, headerSets, ended, captured, logData,
                 retryCount, imagePrompt, imageCalls, clientConnected,
                 closedAt, sent>>
  /\ UNCHANGED <<normVars, chatVars, uploadVars, handlerVars, pairVars>>

\* The iterator reports the end of the stream: the dispatch loop starts.
StreamEnd ==
  /\ pc = "streaming"
  /\ pc' = "dispatch"
  /\ dispatchPos' = 1
  /\ UNCHANGED <<streamKind, envKey, body, transformed, headerSets, frames, ended, captured,
                 logData, fullResponse, fullReasoning, chunkCount, usageData,
                 finishReason, toolCallsInProgress, retryCount, imagePrompt,
                 imageCalls, consumed, clientConnected, closedAt, sent>>
  /\ UNCHANGED <<normVars, chatVars, uploadVars, handlerVars, pairVars>>

\* A catch block that also closes the stream with the success marker.
CatchFramesThenDone(errorMessage) == <<ErrorFrame(errorMessage), DoneFrame>>

\* What the catch block of the relay's try writes before res.end().
CatchFrames(errorMessage) == <<ErrorFrame(errorMessage)>>

\* A read loop whose failure is followed by the dispatch of the tool calls
\* it has assembled.
AfterStreamErrorDispatch == "dispatch"

\* Where the handler stands after the catch block: it returns; the dispatch
\* loop, inside the same try, is skipped.
AfterStreamError == "done"

\* The iterator raises: the catch block of the relay's try.
StreamError ==
  /\ pc = "streaming"
  /\ \E e \in StreamErrors :
       LET errorMessage == IF e.isError THEN e.message ELSE "Stream error"
       IN /\ logData' = [logData EXCEPT !.error = errorMessage]
          /\ captured' = Append(captured, FailureEvent(errorMessage))
          /\ frames' = frames \o CatchFrames(errorMessage)
          /\ ended' = Append(ended, Len(frames'))
  /\ posthogClient' = GetPostHogClient(posthogClient, posthogEnv)
  /\ pc' = AfterStreamError
  /\ dispatchPos' = IF pc' = "dispatch" THEN 1 ELSE dispatchPos
  /\ UNCHANGED <<streamKind, envKey, body, transformed, headerSets, fullResponse, fullReasoning,
                 chunkCount, usageData, finishReason, toolCallsInProgress,
                 retryCount, imagePrompt, imageCalls, consumed,
                 clientConnected, closedAt, sent>>
  /\ UNCHANGED <<normVars, chatVars, uploadVars, handlerVars, reqs, posthogEnv>>

\* ------------------------------------------------------- image generation

\* `isValidUrl`: a URL is accepted only with a recognized scheme.
\* A URL test that accepts every non-empty string.
IsValidUrlAnyScheme(url) == Truthy(url)

IsValidUrl(url) ==
  /\ Truthy(url)
  /\ \/ StartsWith(url, "data:image/")
     \/ StartsWith(url, "http://")
     \/ StartsWith(url, "https://")

\* A retry test that is off by one.
ShouldRetryOffByOne(count) == count <= 2

\* `if (retryCount < 2)`: an invalid response is retried.
ShouldRetry(count) == count < 2

ImageSystemPrompt ==
  "You are an image generation and editing AI. Use the images and context from the conversation to generate or edit images based on the user's request. Always return an image."

\* An attempt that also sends the prompt turn of every earlier attempt of
\* the running call.
ImageRequestAccumulating(messages, prompt) ==
  LET earlier == IF imageCalls = <<>> \/ imageCalls[Len(imageCalls)].result # "pending"
                 THEN 0
                 ELSE Len(imageCalls[Len(imageCalls)].requests)
  IN convertMessagesToAPIFormat(
       <<[role |-> "system", content |-> StringContent(ImageSystemPrompt)]>>
         \o messages
         \o [i \in 1..(earlier + 1) |-> [role |-> "user", content |-> StringContent(prompt)]])

\* The messages one attempt sends: preamble, the conversation, the prompt.
ImageRequest(messages, prompt) ==
  convertMessagesToAPIFormat(
    <<[role |-> "system", content |-> StringContent(ImageSystemPrompt)]>>
      \o messages
      \o <<[role |-> "user", content |-> StringContent(prompt)]>>)

\* A generateImage that lets the AbortError of the fetch through.
AbortMessage == "This operation was aborted"

\* The error generateImage raises in place of the fetch's AbortError.
TimeoutMessage ==
  "Image generation timed out after 60 seconds. The request may be too complex or the model may be overloaded."

ExhaustedMessage(count, url) ==
  "No valid image URL returned after " \o ToString(count + 1) \o " attempts. Got: "
    \o Interp(url)

UndefinedPromptMessage == "Cannot read properties of undefined (reading 'substring')"

TotalRequests ==
  LET RECURSIVE Sum(_)
      Sum(k) == IF k = 0 THEN 0 ELSE Len(imageCalls[k].requests) + Sum(k - 1)
  IN Sum(Len(imageCalls))

\* ----------------------------------------------------------- tool dispatch

\* A dispatcher that generates an image for every tool that is not the
\* video tool.
IsGenerateImageByDefault(name) == name # "show_youtube_video"

\* `toolCall.name === 'generate_image'`.
IsGenerateImage(name) == name = "generate_image"

\* `toolCall.name === 'show_youtube_video'`.
IsShowYoutubeVideo(name) == name = "show_youtube_video"

\* A dispatch loop that a failed tool call leaves.
ResumeAtEnd(pos, size) == size + 1

\* After the catch block of one tool call the loop goes on with the next
\* entry of the Map.
ResumeAt(pos, size) == pos + 1

\* One iteration of the dispatch loop up to its first await: a video embed,
\* a parse failure and an unknown tool finish here; an image call sends its
\* first request.
DispatchNext ==
  /\ pc = "dispatch"
  /\ dispatchPos <= Len(toolCallsInProgress)
  /\ LET toolCall == toolCallsInProgress[dispatchPos]
         parsed == ParseJSON(toolCall.arguments)
         prompt == Prop(parsed.obj, "prompt")
         videoId == Prop(parsed.obj, "videoId")
         explanation == Prop(parsed.obj, "explanation")
     IN IF IsGenerateImage(toolCall.name)
        THEN IF ~parsed.ok
             THEN /\ logData' = [logData EXCEPT !.imageGenerationError = JsonSyntaxError]
                  /\ frames' = Append(frames,
                       ErrorFrame("Failed to generate image: " \o JsonSyntaxError))
                  /\ dispatchPos' = ResumeAt(dispatchPos, Len(toolCallsInProgress))
                  /\ UNCHANGED <<pc, fullResponse, retryCount, imagePrompt, imageCalls>>
             ELSE IF prompt = Undefined
             THEN /\ logData' = [logData EXCEPT !.imageGenerationError = UndefinedPromptMessage]
                  /\ frames' = Append(frames,
                       ErrorFrame("Failed to generate image: " \o UndefinedPromptMessage))
                  /\ dispatchPos' = ResumeAt(dispatchPos, Len(toolCallsInProgress))
                  /\ imageCalls' = Append(imageCalls,
                       [prompt |-> prompt, requests |-> <<>>, responses |-> <<>>,
                        result |-> "failed"])
                  /\ UNCHANGED <<pc, fullResponse, retryCount, imagePrompt>>
             ELSE /\ pc' = "imagefetch"
                  /\ retryCount' = 0
                  /\ imagePrompt' = prompt
                  /\ imageCalls' = Append(imageCalls,
                       [prompt |-> prompt,
                        requests |-> <<ImageRequest(transformed, prompt)>>,
                        responses |-> <<>>, result |-> "pending"])
                  /\ UNCHANGED <<logData, frames, dispatchPos, fullResponse>>
        ELSE IF IsShowYoutubeVideo(toolCall.name)
        THEN IF ~parsed.ok
             THEN /\ logData' = [logData EXCEPT !.youtubeError = JsonSyntaxError]
                  /\ frames' = Append(frames,
                       ErrorFrame("Failed to embed YouTube video: " \o JsonSyntaxError))
                  /\ dispatchPos' = ResumeAt(dispatchPos, Len(toolCallsInProgress))
                  /\ UNCHANGED <<pc, fullResponse, retryCount, imagePrompt, imageCalls>>
             ELSE /\ frames' = Append(frames,
                       YoutubeFrame(videoId, OrElse(explanation, "")))
                  /\ fullResponse' = fullResponse \o "[YOUTUBE:" \o Interp(videoId) \o "]"
                  /\ dispatchPos' = dispatchPos + 1
                  /\ UNCHANGED <<pc, logData, retryCount, imagePrompt, imageCalls>>
        ELSE /\ dispatchPos' = dispatchPos + 1
             /\ UNCHANGED <<pc, logData, frames, fullResponse, retryCount, imagePrompt,
                            imageCalls>>
  /\ UNCHANGED <<streamKind, envKey, body, transformed, headerSets, ended, captured, fullReasoning,
                 chunkCount, usageData, finishReason, toolCallsInProgress, consumed,
                 clientConnected, closedAt, sent>>
  /\ UNCHANGED <<normVars, chatVars, uploadVars, handlerVars, pairVars>>

\* A generateImage that does not look at the HTTP status.
NotOkIgnored(resp) == FALSE

\* `!response.ok`
NotOk(resp) == resp.kind = "not_ok"

\* The running call's record after one more response, with its result.
Answered(call, resp, result) ==
  [call EXCEPT !.responses = Append(@, resp), !.result = result]

\* The image peer answers the pending request of generateImage: the image is
\* forwarded, the request is retried, or the call fails with an inline error.
ImageResponse ==
  /\ pc = "imagefetch"
  /\ \E resp \in ImageResponsesOf(streamKind) :
       LET n == Len(imageCalls)
           failWith(msg) ==
             /\ logData' = [logData EXCEPT !.imageGenerationError = msg]
             /\ frames' = Append(frames, ErrorFrame("Failed to generate image: " \o msg))
             /\ imageCalls' = [imageCalls EXCEPT ![n] = Answered(@, resp, "failed")]
             /\ dispatchPos' = ResumeAt(dispatchPos, Len(toolCallsInProgress))
             /\ pc' = "dispatch"
             /\ UNCHANGED <<fullResponse, retryCount>>
       IN IF resp.kind = "timeout" THEN failWith(TimeoutMessage)
          ELSE IF NotOk(resp)
          THEN failWith("Image generation failed: " \o resp.url)
          ELSE IF IsValidUrl(resp.url)
          THEN /\ frames' = Append(frames, ImageFrame(resp.url, imagePrompt))
               /\ fullResponse' = fullResponse \o "[IMAGE:" \o resp.url \o "]"
               /\ imageCalls' = [imageCalls EXCEPT ![n] = Answered(@, resp, "ok")]
               /\ dispatchPos' = dispatchPos + 1
               /\ pc' = "dispatch"
               /\ UNCHANGED <<logData, retryCount>>
          ELSE IF ShouldRetry(retryCount)
          THEN /\ retryCount' = retryCount + 1
               /\ imageCalls' = [imageCalls EXCEPT ![n] =
                    [Answered(@, resp, "pending") EXCEPT !.requests =
                       Append(@, ImageRequest(transformed, imagePrompt))]]
               /\ UNCHANGED <<pc, logData, frames, fullResponse, dispatchPos>>
          ELSE failWith(ExhaustedMessage(retryCount, resp.url))
  /\ UNCHANGED <<streamKind, envKey, body, transformed, headerSets, ended, captured, fullReasoning,
                 chunkCount, usageData, finishReason, toolCallsInProgress, imagePrompt,
                 consumed, clientConnected, closedAt, sent>>
  /\ UNCHANGED <<normVars, chatVars, uploadVars, handlerVars, pairVars>>

\* A status test that looks at the two buffers only.
NoContentIgnoringTools(response, reasoning, toolCalls) ==
  Len(response) = 0 /\ Len(reasoning) = 0

\* The test of the 'no content' warning.
NoContent(response, reasoning, toolCalls) ==
  Len(response) = 0 /\ Len(reasoning) = 0 /\ Len(toolCalls) = 0

\* After the dispatch loop: stream status, [DONE], res.end(), telemetry.
Finalize ==
  /\ pc = "dispatch"
  /\ dispatchPos > Len(toolCallsInProgress)
  /\ logData' =
       IF NoContent(fullResponse, fullReasoning, toolCallsInProgress)
       THEN [logData EXCEPT !.noContent = TRUE, !.streamStatus = "WARN"]
       ELSE IF Len(toolCallsInProgress) > 0
       THEN [logData EXCEPT !.streamStatus = "OK_WITH_TOOLS"]
       ELSE [logData EXCEPT !.streamStatus = "OK"]
  /\ frames' = Append(frames, DoneFrame)
  /\ ended' = Append(ended, Len(frames'))
  /\ captured' = Append(captured, SuccessEvent)
  /\ posthogClient' = GetPostHogClient(posthogClient, posthogEnv)
  /\ pc' = "done"
  /\ UNCHANGED <<streamKind, envKey, body, transformed, headerSets, fullResponse, fullReasoning,
                 chunkCount, usageData, finishReason, toolCallsInProgress,
                 dispatchPos, retryCount, imagePrompt, imageCalls, consumed,
                 clientConnected, closedAt, sent>>
  /\ UNCHANGED <<normVars, chatVars, uploadVars, handlerVars, reqs, posthogEnv>>

\* The tool calls whose dispatch has begun.
DispatchesStarted ==
  IF pc = "imagefetch" THEN dispatchPos
  ELSE IF dispatchPos = 0 THEN 0 ELSE dispatchPos - 1

\* The client closes the connection while the relay runs; streamChat
\* registers no listener for it and reads nothing that tells it.
Disconnect ==
  /\ clientConnected
  /\ pc \in {"streaming", "dispatch", "imagefetch"}
  /\ clientConnected' = FALSE
  /\ closedAt' = [frames |-> Len(frames), chunks |-> chunkCount,
                  dispatches |-> DispatchesStarted, requests |-> TotalRequests]
  /\ UNCHANGED <<streamKind, pc, envKey, body, transformed, headerSets, frames, ended, captured,
                 logData, fullResponse, fullReasoning, chunkCount, usageData,
                 finishReason, toolCallsInProgress, dispatchPos, retryCount,
                 imagePrompt, imageCalls, consumed, sent>>
  /\ UNCHANGED <<normVars, chatVars, uploadVars, handlerVars, pairVars>>

Next ==
  \/ Begin
  \/ OpenStream
  \/ ReadChunk
  \/ StreamEnd
  \/ StreamError
  \/ DispatchNext
  \/ ImageResponse
  \/ Finalize

Spec == Init /\ [][Next]_vars

NextCancel == Next \/ Disconnect

SpecCancel == Init /\ [][NextCancel]_vars

\* ------------------------------------------------- a failing recorder
\* captureEvent has no try/catch of its own and streamChat wraps neither of
\* its calls: what the PostHog client raises is raised by captureEvent.

RecorderErrors == {[isError |-> TRUE, message |-> "posthog: capture failed"]}

\* The iterator raises and the catch block's captureEvent call raises in
\* turn: the exception leaves the catch block before res.write and res.end.
StreamErrorRecorderFails ==
  /\ pc = "streaming"
  /\ \E e \in StreamErrors, r \in RecorderErrors :
       LET errorMessage == IF e.isError THEN e.message ELSE "Stream error"
       IN logData' = [logData EXCEPT !.error = errorMessage]
  /\ pc' = "threw"
  /\ UNCHANGED <<streamKind, envKey, body, transformed, headerSets, frames, ended, captured,
                 fullResponse, fullReasoning, chunkCount, usageData, finishReason,
                 toolCallsInProgress, dispatchPos, retryCount, imagePrompt, imageCalls,
                 consumed, clientConnected, closedAt, sent>>
  /\ UNCHANGED <<normVars, chatVars, uploadVars, handlerVars, pairVars>>

\* The stream is finalized ([DONE], res.end()) and the success-path
\* captureEvent call raises inside the try: the catch block runs.  Its own
\* captureEvent call raises again and the exception leaves the handler, or
\* it returns and the block calls res.write and res.end() on the response
\* that was already ended.
FinalizeRecorderFails ==
  /\ pc = "dispatch"
  /\ dispatchPos > Len(toolCallsInProgress)
  /\ \E r \in RecorderErrors, again \in BOOLEAN :
       LET errorMessage == IF r.isError THEN r.message ELSE "Stream error"
           status == IF NoContent(fullResponse, fullReasoning, toolCallsInProgress)
                     THEN [logData EXCEPT !.noContent = TRUE, !.streamStatus = "WARN"]
                     ELSE IF Len(toolCallsInProgress) > 0
                     THEN [logData EXCEPT !.streamStatus = "OK_WITH_TOOLS"]
                     ELSE [logData EXCEPT !.streamStatus = "OK"]
           finalized == Append(frames, DoneFrame)
       IN /\ logData' = [status EXCEPT !.error = errorMessage]
          /\ IF again
             THEN /\ frames' = finalized
                  /\ ended' = Append(ended, Len(finalized))
                  /\ pc' = "threw"
                  /\ UNCHANGED captured
             ELSE /\ captured' = Append(captured, FailureEvent(errorMessage))
                  /\ frames' = finalized \o CatchFrames(errorMessage)
                  /\ ended' = ended \o <<Len(finalized), Len(frames')>>
                  /\ pc' = "done"
  /\ UNCHANGED <<streamKind, envKey, body, transformed, headerSets, fullResponse, fullReasoning,
                 chunkCount, usageData, finishReason, toolCallsInProgress,
                 dispatchPos, retryCount, imagePrompt, imageCalls, consumed,
                 clientConnected, closedAt, sent>>
  /\ UNCHANGED <<normVars, chatVars, uploadVars, handlerVars, pairVars>>

NextRecorder == Next \/ StreamErrorRecorderFails \/ FinalizeRecorderFails

SpecRecorder == Init /\ [][NextRecorder]_vars

\* ------------------------------------------- the non-streaming operation
\* chatCall is one call of ChatController.chat: its inputs (key, clientId,
\* model, plugins, messages), its position, the chat.send calls it made, the
\* captureEvent calls it made and how it completed (result or thrown).

ChatModels == {Undefined, "openai/gpt-4o"}

ClientIds == {Undefined, "client-1"}

\* body.plugins: absent (no element) or the web plugin.
PluginLists == {<<>>, <<"web">>}

NullContent == [kind |-> "null"]

\* What chat.send can do for a non-streaming request: resolve to a response
\* (its choices[0].message.content, its usage), or reject.
ChatResponses ==
  [choices : {<<>>} \cup {<<c>> : c \in {StringContent("Hi there"), StringContent(""),
                                        PartsContent(<<>>), NullContent}},
   usage : {NoUsage, Usage(7, 5)}]

ChatSendOutcomes ==
  [resolved : {TRUE}, isError : {FALSE}, message : {""}, response : ChatResponses]
  \cup [resolved : {FALSE}, isError : {TRUE},
        message : {"401 User not found", "SAFETY_CHECK_TYPE_DATA_LEAKAGE", "Rate limit exceeded"},
        response : {[choices |-> <<>>, usage |-> NoUsage]}]
  \cup {[resolved |-> FALSE, isError |-> FALSE, message |-> "boom",
         response |-> [choices |-> <<>>, usage |-> NoUsage]]}

NoThrow == [kind |-> "none"]

HttpException(status, response) ==
  [kind |-> "HttpException", status |-> status, response |-> response]

TypeError(message) == [kind |-> "TypeError", message |-> message]

InitChat ==
  /\ RelayIdle /\ NormIdle /\ UploadIdle /\ HandlersIdle /\ PairIdle
  /\ chatCall \in
       [pc : {"start"}, key : EnvKeys, clientId : ClientIds, model : ChatModels,
        plugins : PluginLists, messages : StreamBodies, transformed : {<<>>},
        sent : {0}, captured : {<<>>}, logError : {Undefined},
        thrown : {NoThrow}, result : {Undefined}]

\* chat up to its first await: credential check, normalizing.
ChatBegin ==
  /\ chatCall.pc = "start"
  /\ chatCall' =
       IF KeyMissing(chatCall.key)
       THEN [chatCall EXCEPT
               !.logError = "OPENROUTER_API_KEY not set",
               !.thrown = HttpException(500, [error |-> MissingKeyMessage]),
               !.pc = "threw"]
       ELSE IF TransformThrows(chatCall.messages)
       THEN [chatCall EXCEPT
               !.thrown = TypeError("Cannot read properties of undefined (reading 'url')"),
               !.pc = "threw"]
       ELSE [chatCall EXCEPT
               !.transformed = transformMessages(chatCall.messages),
               !.pc = "send"]
  /\ UNCHANGED <<relayVars, normVars, uploadVars, handlerVars, pairVars>>

\* The rewriting of chat's send failure message.
ChatErrorMessage(o) ==
  LET errorMessage == IF o.isError THEN o.message ELSE "Unknown error"
  IN IF Includes(errorMessage, "User not found")
     THEN "Invalid or missing OpenRouter API key. Please check your OPENROUTER_API_KEY environment variable."
     ELSE IF Includes(errorMessage, "SAFETY_CHECK_TYPE_DATA_LEAKAGE")
     THEN "Content was flagged by the AI provider's safety filter. This has been logged and should be resolved with a retry."
     ELSE errorMessage

SafetyFilterTriggered(o) ==
  LET errorMessage == IF o.isError THEN o.message ELSE "Unknown error"
  IN /\ ~Includes(errorMessage, "User not found")
     /\ Includes(errorMessage, "SAFETY_CHECK_TYPE_DATA_LEAKAGE")

HasWebSearch(plugins) == \E i \in 1..Len(plugins) : plugins[i] = "web"

\* `typeof content === 'string' ? content : ''` on choices[0]?.message?.content
ChatResult(response) ==
  IF response.choices # <<>> /\ response.choices[1].kind = "string"
  THEN response.choices[1].text
  ELSE ""

\* `await openRouter.chat.send(...)`, its catch block, and the rest of chat.
ChatSend ==
  /\ chatCall.pc = "send"
  /\ \E o \in ChatSendOutcomes :
       LET distinctId == OrElse(chatCall.clientId, "anonymous")
           model == OrElse(chatCall.model, "x-ai/grok-4.1-fast")
       IN chatCall' =
            IF o.resolved
            THEN [chatCall EXCEPT
                    !.sent = @ + 1,
                    !.captured = Append(@,
                       [distinctId |-> distinctId, event |-> "message_sent", model |-> model,
                        messageCount |-> Len(chatCall.transformed),
                        responseLength |-> Len(ChatResult(o.response)),
                        inputTokens |-> UsageField(o.response.usage, "prompt_tokens"),
                        outputTokens |-> UsageField(o.response.usage, "completion_tokens"),
                        totalTokens |-> UsageField(o.response.usage, "total_tokens"),
                        hasWebSearch |-> HasWebSearch(chatCall.plugins),
                        success |-> TRUE]),
                    !.result = ChatResult(o.response),
                    !.pc = "returned"]
            ELSE [chatCall EXCEPT
                    !.sent = @ + 1,
                    !.logError = ChatErrorMessage(o),
                    !.captured = Append(@,
                       [distinctId |-> distinctId, event |-> "message_sent", model |-> model,
                        messageCount |-> Len(chatCall.transformed),
                        hasWebSearch |-> HasWebSearch(chatCall.plugins),
                        success |-> FALSE, error |-> ChatErrorMessage(o),
                        safetyFilterTriggered |-> SafetyFilterTriggered(o)]),
                    !.thrown = HttpException(502,
                       [error |-> "Failed to get chat response",
                        details |-> ChatErrorMessage(o)]),
                    !.pc = "threw"]
  /\ UNCHANGED <<relayVars, normVars, uploadVars, handlerVars, pairVars>>

NextChat == ChatBegin \/ ChatSend

SpecChat == InitChat /\ [][NextChat]_vars

\* ------------------------------------------------------- image upload
\* upload is one call of StorageService.uploadImage: the file (mimetype,
\* size, originalname, the first 16 hex digits of its buffer's SHA-256), the
\* clock, the uploadBytes calls made, and how the call completed.

AllowedMimeTypes == <<"image/jpeg", "image/jpg", "image/png", "image/gif", "image/webp">>

\* Array.prototype.includes
ArrayIncludes(arr, v) == \E i \in 1..Len(arr) : arr[i] = v

\* Array.prototype.join
RECURSIVE Join(_, _)
Join(arr, sep) ==
  IF arr = <<>> THEN ""
  ELSE IF Len(arr) = 1 THEN arr[1]
  ELSE arr[1] \o sep \o Join(Tail(arr), sep)

MAX_SIZE == 10 * 1024 * 1024

\* A size test that also rejects a file of exactly the maximum size.
TooLargeInclusive(size) == size >= MAX_SIZE

\* `file.size > MAX_SIZE`
TooLarge(size) == size > MAX_SIZE

\* `name.split('.').pop()`: the text after the last dot, the whole name when
\* it has none.
RECURSIVE LastSegment(_)
LastSegment(name) ==
  IF \E i \in 1..Len(name) : SubSeq(name, i, i) = "."
  THEN LET first == CHOOSE i \in 1..Len(name) :
                      /\ SubSeq(name, i, i) = "."
                      /\ \A j \in 1..(i - 1) : SubSeq(name, j, j) # "."
       IN LastSegment(SubSeq(name, first + 1, Len(name)))
  ELSE name

\* `images/${timestamp}-${hash}.${ext}`
StorageFilename(file, timestamp) ==
  "images/" \o timestamp \o "-" \o file.digest16 \o "."
    \o OrElse(LastSegment(file.originalname), "jpg")

UploadMimeTypes ==
  {"image/jpeg", "image/jpg", "image/png", "image/gif", "image/webp",
   "image/svg+xml", "application/pdf", "IMAGE/PNG", ""}

UploadSizes == {0, 1, MAX_SIZE - 1, MAX_SIZE, MAX_SIZE + 1, 2 * MAX_SIZE}

UploadNames == {"cat.png", "archive.tar.gz", "noext", "trailing."}

UploadFiles ==
  [mimetype : UploadMimeTypes, size : UploadSizes, originalname : UploadNames,
   digest16 : {"9f86d081884c7d65"}]

\* Date.now(), as the decimal text the template literal prints.
Timestamps == {"1700000000000"}

\* What the storage peer can do with uploadBytes and with getDownloadURL.
StorageOutcomes == {"fulfilled", "rejected"}

StorageError(op) == [kind |-> "FirebaseError", message |-> op \o " failed"]

InitUpload ==
  /\ RelayIdle /\ NormIdle /\ ChatIdle /\ PairIdle /\ HandlersIdle
  /\ upload \in
       [pc : {"start"}, file : UploadFiles, filename : {Undefined}, uploads : {<<>>},
        thrown : {NoThrow}, result : {NoThrow}]

\* uploadImage up to its first await: the two checks, the file name, and the
\* uploadBytes call.
UploadValidate ==
  /\ upload.pc = "start"
  /\ \E timestamp \in Timestamps :
       upload' =
         IF ~ArrayIncludes(AllowedMimeTypes, upload.file.mimetype)
         THEN [upload EXCEPT
                 !.thrown = HttpException(400,
                    "Invalid file type. Allowed types: " \o Join(AllowedMimeTypes, ", ")),
                 !.pc = "threw"]
         ELSE IF TooLarge(upload.file.size)
         THEN [upload EXCEPT
                 !.thrown = HttpException(400,
                    "File too large. Maximum size is "
                      \o ToString(MAX_SIZE \div (1024 * 1024)) \o "MB"),
                 !.pc = "threw"]
         ELSE [upload EXCEPT
                 !.filename = StorageFilename(upload.file, timestamp),
                 !.uploads = Append(@,
                    [path |-> StorageFilename(upload.file, timestamp),
                     bytes |-> upload.file.size,
                     contentType |-> upload.file.mimetype,
                     originalName |-> upload.file.originalname]),
                 !.pc = "uploading"]
  /\ UNCHANGED <<relayVars, normVars, chatVars, handlerVars, pairVars>>

\* `await uploadBytes(...)` settles; on success getDownloadURL is called.
UploadBytesSettled ==
  /\ upload.pc = "uploading"
  /\ \E outcome \in StorageOutcomes :
       upload' =
         IF outcome = "fulfilled"
         THEN [upload EXCEPT !.pc = "url"]
         ELSE [upload EXCEPT !.thrown = StorageError("uploadBytes"), !.pc = "threw"]
  /\ UNCHANGED <<relayVars, normVars, chatVars, handlerVars, pairVars>>

\* `await getDownloadURL(storageRef)` settles and uploadImage returns.
DownloadURLSettled ==
  /\ upload.pc = "url"
  /\ \E outcome \in StorageOutcomes :
       upload' =
         IF outcome = "fulfilled"
         THEN [upload EXCEPT
                 !.result = [url |-> "https://storage/" \o upload.filename,
                             filename |-> upload.filename],
                 !.pc = "returned"]
         ELSE [upload EXCEPT !.thrown = StorageError("getDownloadURL"), !.pc = "threw"]
  /\ UNCHANGED <<relayVars, normVars, chatVars, handlerVars, pairVars>>

NextUpload == UploadValidate \/ UploadBytesSettled \/ DownloadURLSettled

SpecUpload == InitUpload /\ [][NextUpload]_vars

\* ------------------------------------------- two interleaved requests
\* Two streamChat requests on one event loop.  The state variables of the
\* relay hold the locals of the request that runs; reqs holds which request
\* that is and the locals of the other one, suspended at an await.  The
\* process environment and the PostHog client are the process's, not a
\* request's.

\* The locals of the running request.
Locals ==
  [pc |-> pc,
   body |-> body,
   transformed |-> transformed,
   headerSets |-> headerSets,
   frames |-> frames,
   ended |-> ended,
   captured |-> captured,
   logData |-> logData,
   fullResponse |-> fullResponse,
   fullReasoning |-> fullReasoning,
   chunkCount |-> chunkCount,
   usageData |-> usageData,
   finishReason |-> finishReason,
   toolCallsInProgress |-> toolCallsInProgress,
   dispatchPos |-> dispatchPos,
   retryCount |-> retryCount,
   imagePrompt |-> imagePrompt,
   imageCalls |-> imageCalls,
   consumed |-> consumed,
   sent |-> sent]

\* A handler whose response buffer is a module-level variable: a resumed
\* request finds in it what the other request left.
RestoreSharedBuffer(saved, live) == [saved EXCEPT !.fullResponse = live.fullResponse]

\* Every local of a resumed request is the one of its own invocation.
Restore(saved, live) == saved

NewRequest(messages) ==
  [pc |-> "start", body |-> messages, transformed |-> <<>>, headerSets |-> <<>>,
   frames |-> <<>>, ended |-> <<>>, captured |-> <<>>, logData |-> NoLogData,
   fullResponse |-> "", fullReasoning |-> "", chunkCount |-> 0, usageData |-> NoUsage,
   finishReason |-> Undefined, toolCallsInProgress |-> <<>>, dispatchPos |-> 0,
   retryCount |-> 0, imagePrompt |-> Undefined, imageCalls |-> <<>>, consumed |-> <<>>,
   sent |-> 0]

InitPair ==
  /\ streamKind = "pair"
  /\ envKey \in {Undefined, " sk-or-1 "}
  /\ posthogEnv \in {Undefined, "phc_1"}
  /\ posthogClient = "null"
  /\ pc = "start"
  /\ body \in StreamBodies
  /\ transformed = <<>>
  /\ headerSets = <<>> /\ frames = <<>> /\ ended = <<>> /\ captured = <<>>
  /\ logData = NoLogData
  /\ fullResponse = "" /\ fullReasoning = "" /\ chunkCount = 0
  /\ usageData = NoUsage /\ finishReason = Undefined
  /\ toolCallsInProgress = <<>> /\ dispatchPos = 0 /\ retryCount = 0
  /\ imagePrompt = Undefined /\ imageCalls = <<>> /\ consumed = <<>>
  /\ sent = 0
  /\ reqs \in [running : {1}, suspended : {NewRequest(messages) : messages \in StreamBodies}]
  /\ clientConnected = TRUE
  /\ closedAt = [frames |-> 0, chunks |-> 0, dispatches |-> 0, requests |-> 0]
  /\ NormIdle /\ ChatIdle /\ UploadIdle /\ HandlersIdle

\* The running request waits at an await and the event loop resumes the
\* other request.
Switch ==
  /\ reqs.running \in {1, 2}
  /\ reqs.suspended.pc \notin {"done", "threw"}
  /\ LET resumed == Restore(reqs.suspended, Locals)
     IN
       /\ pc' = resumed.pc
       /\ body' = resumed.body
       /\ transformed' = resumed.transformed
       /\ headerSets' = resumed.headerSets
       /\ frames' = resumed.frames
       /\ ended' = resumed.ended
       /\ captured' = resumed.captured
       /\ logData' = resumed.logData
       /\ fullResponse' = resumed.fullResponse
       /\ fullReasoning' = resumed.fullReasoning
       /\ chunkCount' = resumed.chunkCount
       /\ usageData' = resumed.usageData
       /\ finishReason' = resumed.finishReason
       /\ toolCallsInProgress' = resumed.toolCallsInProgress
       /\ dispatchPos' = resumed.dispatchPos
       /\ retryCount' = resumed.retryCount
       /\ imagePrompt' = resumed.imagePrompt
       /\ imageCalls' = resumed.imageCalls
       /\ consumed' = resumed.consumed
       /\ sent' = resumed.sent
  /\ reqs' = [running |-> 3 - reqs.running, suspended |-> Locals]
  /\ UNCHANGED <<streamKind, envKey, clientConnected, closedAt, posthogClient, posthogEnv>>
  /\ UNCHANGED <<normVars, chatVars, uploadVars, handlerVars>>

NextPair == Next \/ Switch

SpecPair == InitPair /\ [][NextPair]_vars

\* ------------------------------------------- normalizer round trip (spec)

InitNormalize ==
  /\ RelayIdle /\ ChatIdle /\ UploadIdle /\ HandlersIdle /\ PairIdle
  /\ normIn \in SeqsUpTo(WireMessages, MaxMsgs)
  /\ normMid = <<>> /\ normOut = <<>>
  /\ normPc = "start"

Normalize ==
  /\ normPc = "start"
  /\ IF TransformThrows(normIn)
     THEN normPc' = "threw" /\ UNCHANGED normMid
     ELSE normMid' = transformMessages(normIn) /\ normPc' = "normalized"
  /\ UNCHANGED <<normIn, normOut>>
  /\ UNCHANGED <<relayVars, chatVars, uploadVars, handlerVars, pairVars>>

Denormalize ==
  /\ normPc = "normalized"
  /\ normOut' = convertMessagesToAPIFormat(normMid)
  /\ normPc' = "done"
  /\ UNCHANGED <<normIn, normMid>>
  /\ UNCHANGED <<relayVars, chatVars, uploadVars, handlerVars, pairVars>>

NextNormalize == Normalize \/ Denormalize

SpecNormalize == InitNormalize /\ [][NextNormalize]_vars

\* ------------------------------------------------------- document parsing
\* DocumentController.parseDocument and DocumentParserService.parseDocument.
\* `document` holds the uploaded file, what the parsing library will answer,
\* the headers set, the calls made to the service, the parser it selected,
\* its result and the response.

DocxMime == "application/vnd.openxmlformats-officedocument.wordprocessingml.document"

XlsxMime == "application/vnd.openxmlformats-officedocument.spreadsheetml.sheet"

PptxMime == "application/vnd.openxmlformats-officedocument.presentationml.presentation"

\* The lower-case form of one character.
LowerChar(c) ==
  LET upper == "ABCDEFGHIJKLMNOPQRSTUVWXYZ"
      lower == "abcdefghijklmnopqrstuvwxyz"
  IN IF \E i \in 1..Len(upper) : SubSeq(upper, i, i) = c
     THEN LET i == CHOOSE j \in 1..Len(upper) : SubSeq(upper, j, j) = c
          IN SubSeq(lower, i, i)
     ELSE c

\* A MIME type compared as it was sent.
KeepCase(s) == s

\* String.prototype.toLowerCase
RECURSIVE ToLowerCase(_)
ToLowerCase(s) ==
  IF s = "" THEN "" ELSE LowerChar(SubSeq(s, 1, 1)) \o ToLowerCase(SubSeq(s, 2, Len(s)))

\* The length of the longest prefix of s made of characters of cs.
RECURSIVE RunLength(_, _)
RunLength(s, cs) ==
  IF Len(s) > 0 /\ SubSeq(s, 1, 1) \in cs
  THEN 1 + RunLength(SubSeq(s, 2, Len(s)), cs)
  ELSE 0

\* `.replace(/\n{3,}/g, '\n\n')`
RECURSIVE CollapseNewlines(_)
CollapseNewlines(s) ==
  IF s = "" THEN ""
  ELSE LET n == RunLength(s, {"\n"})
       IN IF n = 0
          THEN SubSeq(s, 1, 1) \o CollapseNewlines(SubSeq(s, 2, Len(s)))
          ELSE (IF n >= 3 THEN "\n\n" ELSE SubSeq(s, 1, n))
               \o CollapseNewlines(SubSeq(s, n + 1, Len(s)))

\* `.replace(/[ \t]+/g, ' ')`
RECURSIVE CollapseBlanks(_)
CollapseBlanks(s) ==
  IF s = "" THEN ""
  ELSE LET n == RunLength(s, {" ", "\t"})
       IN IF n = 0
          THEN SubSeq(s, 1, 1) \o CollapseBlanks(SubSeq(s, 2, Len(s)))
          ELSE " " \o CollapseBlanks(SubSeq(s, n + 1, Len(s)))

\* String.prototype.trim over blanks, tabs and line ends.
RECURSIVE TrimEnd(_)
TrimEnd(s) ==
  IF Len(s) > 0 /\ SubSeq(s, Len(s), Len(s)) \in {" ", "\t", "\n", "\r"}
  THEN TrimEnd(SubSeq(s, 1, Len(s) - 1))
  ELSE s

TrimWhitespace(s) ==
  TrimEnd(SubSeq(s, RunLength(s, {" ", "\t", "\n", "\r"}) + 1, Len(s)))

normalizeText(text) == TrimWhitespace(CollapseBlanks(CollapseNewlines(text)))

\* The parser parseDocument selects for a lower-cased MIME type, in the
\* order of its tests; "text" is the inline branch of text/*.
SelectParser(mimeLower) ==
  IF mimeLower = "application/pdf" THEN "parsePdf"
  ELSE IF mimeLower = DocxMime THEN "parseDocx"
  ELSE IF mimeLower = XlsxMime THEN "parseXlsx"
  ELSE IF mimeLower = PptxMime THEN "parsePptx"
  ELSE IF mimeLower = "text/html" THEN "parseHtml"
  ELSE IF StartsWith(mimeLower, "text/") THEN "text"
  ELSE "unsupported"

\* The parsers that hand the buffer to a library.
LibraryParsers == {"parsePdf", "parseDocx", "parseXlsx", "parsePptx", "parseHtml"}

\* parseXlsx's text for a workbook: a header line and the CSV per sheet.
RECURSIVE SheetsText(_)
SheetsText(sheets) ==
  IF sheets = <<>> THEN ""
  ELSE "Sheet: " \o Head(sheets).name \o "\n" \o Head(sheets).csv \o "\n\n"
       \o SheetsText(Tail(sheets))

\* The text a parser returns for what its library extracted.
ParserText(parser, extracted) ==
  IF parser = "parseXlsx"
  THEN normalizeText(SheetsText(<<[name |-> "Sheet1", csv |-> extracted]>>))
  ELSE normalizeText(extracted)

Fulfilled(text) == [ok |-> TRUE, value |-> text]

Rejected(message) == [ok |-> FALSE, value |-> message]

\* The catch block of parseDocument for a thrown value.
WrapFailure(thrown) ==
  Rejected("Failed to parse document: "
           \o (IF thrown.isError THEN thrown.value ELSE "Unknown error"))

\* What the library does with the buffer: it extracts a text, or it fails
\* with an Error or with a value that is no Error.
LibraryOutcomes ==
  {[kind |-> "resolved", isError |-> FALSE, value |-> " Title \t text\n\n\n\nend "],
   [kind |-> "resolved", isError |-> FALSE, value |-> ""],
   [kind |-> "rejected", isError |-> TRUE, value |-> "Parse failed"],
   [kind |-> "rejected", isError |-> FALSE, value |-> "String error"]}

DocumentMimeTypes ==
  {"application/pdf", "APPLICATION/PDF", DocxMime, XlsxMime, PptxMime, "text/html",
   "text/plain", "Text/Markdown", "application/x-msdownload",
   "application/octet-stream", Undefined}

DocumentSizes == {1024, 25 * 1024 * 1024, 26 * 1024 * 1024}

NoFile == [absent |-> TRUE]

DocumentFiles ==
  [mimetype : DocumentMimeTypes, size : DocumentSizes,
   originalname : {"report.bin"}, content : {"Plain text content", "a  b\n\n\n\nc\t"}]

NoResponse == [status |-> 0]

DocumentCorsHeaders ==
  [ACAO |-> "*", ACAM |-> "GET, POST, PUT, DELETE, PATCH, OPTIONS",
   ACAH |-> "Origin, X-Requested-With, Content-Type, Accept, Authorization",
   ACAC |-> "true"]

InitDocument ==
  /\ RelayIdle /\ NormIdle /\ ChatIdle /\ UploadIdle /\ PairIdle
  /\ FilterIdle /\ TtsIdle
  /\ document \in
       [pc : {"start"}, file : DocumentFiles \cup {NoFile}, library : LibraryOutcomes,
        headers : {<<>>}, calls : {<<>>}, parser : {"none"},
        result : {Rejected(Undefined)}, response : {NoResponse}]

\* The controller up to its await: the CORS headers, the test for the file,
\* and the call of the service, which runs up to its own first await or
\* settles at once (text/*, unsupported type).
ParseDocumentBegin ==
  /\ document.pc = "start"
  /\ document' =
       IF document.file = NoFile
       THEN [document EXCEPT
               !.headers = <<DocumentCorsHeaders>>,
               !.response = [status |-> 400, body |-> [error |-> "No file provided"]],
               !.pc = "done"]
       ELSE LET mimeType == OrElse(document.file.mimetype, "application/octet-stream")
                parser == SelectParser(ToLowerCase(mimeType))
            IN [document EXCEPT
                  !.headers = <<DocumentCorsHeaders>>,
                  !.calls = Append(@, [mimeType |-> mimeType, size |-> document.file.size]),
                  !.parser = parser,
                  !.result =
                     IF parser = "text" THEN Fulfilled(normalizeText(document.file.content))
                     ELSE IF parser = "unsupported"
                     THEN WrapFailure([isError |-> TRUE,
                                       value |-> "Unsupported MIME type: " \o mimeType])
                     ELSE @,
                  !.pc = IF parser \in LibraryParsers THEN "library" ELSE "settled"]
  /\ UNCHANGED <<relayVars, normVars, chatVars, uploadVars, filtered, tts, pairVars>>

\* The library settles: the parser normalizes the text, or parseDocument's
\* catch block wraps the failure.
LibrarySettled ==
  /\ document.pc = "library"
  /\ document' =
       [document EXCEPT
          !.result = IF document.library.kind = "resolved"
                     THEN Fulfilled(ParserText(document.parser, document.library.value))
                     ELSE WrapFailure(document.library),
          !.pc = "settled"]
  /\ UNCHANGED <<relayVars, normVars, chatVars, uploadVars, filtered, tts, pairVars>>

\* The controller after its await: the text with the file's metadata, or
\* the 400 of its catch block.
ParseDocumentRespond ==
  /\ document.pc = "settled"
  /\ document' =
       [document EXCEPT
          !.response =
             IF document.result.ok
             THEN [status |-> 200,
                   body |-> [text |-> document.result.value,
                             metadata |-> [filename |-> document.file.originalname,
                                           mimeType |-> document.file.mimetype,
                                           size |-> document.file.size]]]
             ELSE [status |-> 400,
                   body |-> [error |-> "Failed to parse document",
                             details |-> document.result.value]],
          !.pc = "done"]
  /\ UNCHANGED <<relayVars, normVars, chatVars, uploadVars, filtered, tts, pairVars>>

NextDocument == ParseDocumentBegin \/ LibrarySettled \/ ParseDocumentRespond

SpecDocument == InitDocument /\ [][NextDocument]_vars

\* ------------------------------------------------------- exception filter
\* HttpExceptionFilter.catch. The repository holds the filter in three
\* revisions: the one of src/http-exception.filter.ts ("wildcard"), and the
\* two of the unnamed part ("credentials", "allowedOrigins").

FilterRevisions == {"wildcard", "credentials", "allowedOrigins"}

allowedOrigins ==
  <<"http://localhost:3000", "http://localhost:9955", "https://graphai.one",
    "https://www.graphai.one", "https://api.graphai.one">>

\* The four headers a revision sets for a request with the given origin.
CorsHeaders(revision, origin) ==
  IF revision = "wildcard"
  THEN [ACAO |-> "*", ACAM |-> "*", ACAH |-> "*", ACEH |-> "*"]
  ELSE IF revision = "credentials"
  THEN [ACAO |-> "*", ACAM |-> "GET, POST, PUT, DELETE, PATCH, OPTIONS",
        ACAH |-> "Origin, X-Requested-With, Content-Type, Accept, Authorization, Content-Encoding",
        ACAC |-> "true"]
  ELSE LET isAllowed == ~Truthy(origin) \/ ArrayIncludes(allowedOrigins, origin)
           allowOrigin == IF isAllowed THEN OrElse(origin, "*") ELSE allowedOrigins[1]
       IN [ACAO |-> allowOrigin, ACAM |-> "GET, POST, PUT, DELETE, PATCH, OPTIONS",
           ACAH |-> "Content-Type, Authorization, X-Requested-With",
           ACEH |-> "*"]

\* request.headers.origin
FilterOrigins ==
  {Undefined, "https://evil.com", "http://localhost:3000/"}
  \cup {allowedOrigins[i] : i \in 1..Len(allowedOrigins)}

\* The exceptions the filter is handed: HttpExceptions and other values.
FilterExceptions ==
  {HttpException(400, "Bad Request"), HttpException(404, "Not Found"),
   HttpException(429, "ThrottlerException: Too Many Requests"),
   HttpException(503, "Service Unavailable"),
   TypeError("Cannot read properties of undefined")}

InitFilter ==
  /\ RelayIdle /\ NormIdle /\ ChatIdle /\ UploadIdle /\ PairIdle
  /\ DocumentIdle /\ TtsIdle
  /\ filtered \in
       [pc : {"start"}, revision : FilterRevisions, origin : FilterOrigins,
        exception : FilterExceptions, headers : {<<>>}, response : {NoResponse}]

\* `catch(exception, host)`: status and body from the exception, the CORS
\* headers, then the response.
FilterCatch ==
  /\ filtered.pc = "start"
  /\ LET isHttp == filtered.exception.kind = "HttpException"
         status == IF isHttp THEN filtered.exception.status ELSE 500
         message == IF isHttp THEN filtered.exception.response
                    ELSE "Internal server error"
     IN filtered' =
          [filtered EXCEPT
             !.headers = <<CorsHeaders(filtered.revision, filtered.origin)>>,
             !.response = [status |-> status, body |-> message],
             !.pc = "done"]
  /\ UNCHANGED <<relayVars, normVars, chatVars, uploadVars, document, tts, pairVars>>

NextFilter == FilterCatch

SpecFilter == InitFilter /\ [][NextFilter]_vars

\* --------------------------------------------------------- text to speech
\* TtsController.textToSpeech for requests without timestamps (the audio
\* streaming path). `tts` holds the inputs, the headers set, the results the
\* reader has delivered, the chunks written, the calls that terminate the
\* response (res.end() as "end", res.status().json() as "json") and the
\* response of the last json call.

\* The most audio chunks the Deepgram reader delivers.
MaxAudioChunks == 3

TtsTexts == {Undefined, "", "Hi", "Hello there"}

DeepgramKeys == {Undefined, "", "dg-key"}

\* What the fetch of the speak endpoint yields: a rejection, a non-OK
\* status with its body text, an OK response without body, one with a body.
DeepgramOutcomes ==
  {[kind |-> "rejected", isError |-> TRUE, value |-> "fetch failed"],
   [kind |-> "rejected", isError |-> FALSE, value |-> "boom"],
   [kind |-> "not_ok", isError |-> FALSE, value |-> "401 Invalid credentials"],
   [kind |-> "no_body", isError |-> FALSE, value |-> ""],
   [kind |-> "body", isError |-> FALSE, value |-> ""]}

\* What one reader.read() yields: {done: false, value}, {done: true}, or a
\* rejection with an Error or with a value that is no Error.
ReaderResults ==
  {[kind |-> "value", isError |-> FALSE, value |-> v] : v \in {"ID3", "fffb"}}
  \cup {[kind |-> "done", isError |-> FALSE, value |-> ""],
        [kind |-> "rejected", isError |-> TRUE, value |-> "Stream error"],
        [kind |-> "rejected", isError |-> FALSE, value |-> "aborted"]}

AudioHeaders ==
  <<[name |-> "Content-Type", value |-> "audio/mpeg"],
    [name |-> "Cache-Control", value |-> "no-cache"],
    [name |-> "Transfer-Encoding", value |-> "chunked"]>>

\* `error instanceof Error ? error.message : 'Unknown error'`
ErrorMessageOf(thrown) == IF thrown.isError THEN thrown.value ELSE "Unknown error"

\* The 500 of the handler's own catch block.
SpeechFailure(details) ==
  [status |-> 500, body |-> [error |-> "Failed to generate speech", details |-> details]]

\* A stream failure that is always answered with the JSON error.
StreamFailureAlwaysJson(headersSent) == "json"

\* The catch of pump(): the JSON error while no header was sent, else res.end().
StreamFailureTermination(headersSent) == IF ~headersSent THEN "json" ELSE "end"

InitTts ==
  /\ RelayIdle /\ NormIdle /\ ChatIdle /\ UploadIdle /\ PairIdle
  /\ DocumentIdle /\ FilterIdle
  /\ tts \in
       [pc : {"start"}, text : TtsTexts, apiKey : DeepgramKeys, headers : {<<>>},
        results : {<<>>}, written : {<<>>}, headersSent : {FALSE},
        terminated : {<<>>}, response : {NoResponse}]

\* The handler up to its first await: the two checks and the fetch.
TtsBegin ==
  /\ tts.pc = "start"
  /\ tts' =
       IF ~Truthy(tts.text)
       THEN [tts EXCEPT !.response = [status |-> 400, body |-> [error |-> "Text is required"]],
                        !.terminated = Append(@, "json"), !.headersSent = TRUE,
                        !.pc = "done"]
       ELSE IF ~Truthy(tts.apiKey)
       THEN [tts EXCEPT !.response = [status |-> 500,
                                      body |-> [error |-> "DEEPGRAM_API_KEY is not configured"]],
                        !.terminated = Append(@, "json"), !.headersSent = TRUE,
                        !.pc = "done"]
       ELSE [tts EXCEPT !.pc = "fetching"]
  /\ UNCHANGED <<relayVars, normVars, chatVars, uploadVars, document, filtered, pairVars>>

\* The fetch settles: the handler fails with a 500, or sets the audio
\* headers, takes the reader and starts pump() with its first read.
TtsFetchSettled ==
  /\ tts.pc = "fetching"
  /\ \E o \in DeepgramOutcomes :
       LET fail(response, headers) ==
             [tts EXCEPT !.response = response, !.headers = headers,
                         !.terminated = Append(@, "json"), !.headersSent = TRUE,
                         !.pc = "done"]
       IN tts' =
            IF o.kind = "rejected" THEN fail(SpeechFailure(ErrorMessageOf(o)), <<>>)
            ELSE IF o.kind = "not_ok"
            THEN fail(SpeechFailure("Deepgram API error: " \o o.value), <<>>)
            ELSE IF o.kind = "no_body"
            THEN fail(SpeechFailure("Response body is null"), AudioHeaders)
            ELSE [tts EXCEPT !.headers = AudioHeaders, !.pc = "pumping"]
  /\ UNCHANGED <<relayVars, normVars, chatVars, uploadVars, document, filtered, pairVars>>

\* One `await reader.read()` of pump() settles: a chunk is written, the
\* response is ended, or the catch of pump() terminates it.
TtsRead ==
  /\ tts.pc = "pumping"
  /\ \E r \in ReaderResults :
       /\ r.kind = "value" => Len(tts.results) < MaxAudioChunks
       /\ tts' =
            IF r.kind = "value"
            THEN [tts EXCEPT !.results = Append(@, r), !.written = Append(@, r.value),
                             !.headersSent = TRUE]
            ELSE IF r.kind = "done"
            THEN [tts EXCEPT !.results = Append(@, r), !.terminated = Append(@, "end"),
                             !.headersSent = TRUE, !.pc = "done"]
            ELSE IF StreamFailureTermination(tts.headersSent) = "json"
            THEN [tts EXCEPT !.results = Append(@, r),
                             !.response = [status |-> 500,
                                           body |-> [error |-> "Failed to stream audio",
                                                     details |-> ErrorMessageOf(r)]],
                             !.terminated = Append(@, "json"),
                             !.headersSent = TRUE, !.pc = "done"]
            ELSE [tts EXCEPT !.results = Append(@, r), !.terminated = Append(@, "end"),
                             !.pc = "done"]
  /\ UNCHANGED <<relayVars, normVars, chatVars, uploadVars, document, filtered, pairVars>>

NextTts == TtsBegin \/ TtsFetchSettled \/ TtsRead

SpecTts == InitTts /\ [][NextTts]_vars

\* ================================================================ claims

\* The kinds of frame, told by the keys of the payload.
IsError(f) == "error" \in DOMAIN f

IsDone(f) == f = [literal |-> "[DONE]"]

IsContent(f) == DOMAIN f = {"content"}

IsReasoning(f) == DOMAIN f = {"reasoning"}

IsImage(f) == "type" \in DOMAIN f /\ f.type = "image"

IsYoutube(f) == "type" \in DOMAIN f /\ f.type = "youtube"

Last(q) == q[Len(q)]

RECURSIVE Flatten(_)
Flatten(qs) == IF qs = <<>> THEN <<>> ELSE Head(qs) \o Flatten(Tail(qs))

\* The tool-call fragments the relay has ingested, in arrival order (a chunk
\* without a first choice is skipped before its delta is read).
FragLog ==
  Flatten([i \in 1..Len(consumed) |->
    IF consumed[i].hasChoice THEN consumed[i].tool_calls ELSE <<>>])

\* An error frame written by the dispatch loop for one tool call.
IsInlineError(f) ==
  /\ IsError(f)
  /\ \/ StartsWith(f.error, "Failed to generate image: ")
     \/ StartsWith(f.error, "Failed to embed YouTube video: ")

\* A frame that terminates the response: [DONE], or an {error} frame that is
\* not the inline error of one tool dispatch.
IsTerminal(f) == IsDone(f) \/ (IsError(f) /\ ~IsInlineError(f))

\* C1: one streamChat request writes exactly one terminal frame, [DONE] or a
\* terminal {error} frame, never both, and it is the last frame written:
\* once the handler has returned, res.end() was called once, right after the
\* last frame, that frame is terminal and no frame before it is; while the
\* handler runs, no terminal frame has been written.
C1_ExactlyOneTerminalFrame ==
  /\ pc = "done" =>
       /\ Len(ended) = 1
       /\ Len(frames) >= 1
       /\ ended[1] = Len(frames)
       /\ IsTerminal(Last(frames))
       /\ \A i \in 1..(Len(frames) - 1) : ~IsTerminal(frames[i])
  /\ pc # "done" =>
       /\ ended = <<>>
       /\ \A i \in 1..Len(frames) : ~IsTerminal(frames[i])

\* C1 witness: a mixed stream (content and an assembled tool call) failed
\* mid-stream and the handler has returned.
C1_Witness ==
  /\ pc = "done"
  /\ Len(frames) >= 2
  /\ IsError(Last(frames))
  /\ \E i \in 1..Len(frames) : IsContent(frames[i])
  /\ Len(toolCallsInProgress) > 0

\* C2 as stated: a response that contains an {error} frame from any source
\* contains no [DONE] frame.
C2_Original_ErrorExcludesDone ==
  \A i, j \in 1..Len(frames) : IsError(frames[i]) => ~IsDone(frames[j])

\* C2 amended: no [DONE] is written after a terminal {error} frame; an error
\* frame that a [DONE] follows is always an inline tool-dispatch error, and a
\* response ended by an error frame contains no [DONE].
C2_NoDoneAfterTerminalError ==
  /\ \A i, j \in 1..Len(frames) :
       (i < j /\ IsError(frames[i]) /\ IsDone(frames[j])) => IsInlineError(frames[i])
  /\ \A k \in 1..Len(ended) :
       (ended[k] >= 1 /\ IsError(frames[ended[k]])) =>
         \A j \in 1..Len(frames) : ~IsDone(frames[j])

\* C2 witness: a failed tool dispatch wrote an inline error frame and the
\* stream was then finalized with [DONE].
C2_Witness ==
  /\ pc = "done"
  /\ \E i \in 1..Len(frames) : IsInlineError(frames[i])
  /\ IsDone(Last(frames))

\* The index a fragment is filed under (`toolCallDelta.index ?? 0`).
FragIndex(f) == IF f.index = NoIndex THEN 0 ELSE f.index

RECURSIVE ConcatArgs(_, _)
ConcatArgs(log, index) ==
  IF log = <<>> THEN ""
  ELSE (IF FragIndex(Head(log)) = index /\ Truthy(Head(log).arguments)
        THEN Head(log).arguments ELSE "") \o ConcatArgs(Tail(log), index)

RECURSIVE LastNonEmpty(_, _, _)
LastNonEmpty(log, index, field) ==
  IF log = <<>> THEN ""
  ELSE IF FragIndex(Last(log)) = index /\ Truthy(Last(log)[field])
  THEN Last(log)[field]
  ELSE LastNonEmpty(SubSeq(log, 1, Len(log) - 1), index, field)

\* C3: after any sequence of tool-call fragments, the accumulator holds one
\* entry per index seen; its argument string is the concatenation, in arrival
\* order, of the argument fragments of that index, and its name and id are
\* the last non-empty name and id supplied for that index (a fragment that
\* omits them or carries them empty clears nothing).
C3_AssemblerAppendOnly ==
  /\ {toolCallsInProgress[k].index : k \in 1..Len(toolCallsInProgress)}
       = {FragIndex(FragLog[i]) : i \in 1..Len(FragLog)}
  /\ \A k, l \in 1..Len(toolCallsInProgress) :
       toolCallsInProgress[k].index = toolCallsInProgress[l].index => k = l
  /\ \A k \in 1..Len(toolCallsInProgress) :
       LET e == toolCallsInProgress[k]
       IN /\ e.arguments = ConcatArgs(FragLog, e.index)
          /\ e.name = LastNonEmpty(FragLog, e.index, "name")
          /\ e.id = LastNonEmpty(FragLog, e.index, "id")

\* C3 witness: index 0 was assembled from three fragments, the later two
\* omitting or blanking id and name, and still holds its id and name.
C3_Witness ==
  /\ Len(FragLog) = 3
  /\ \E k \in 1..Len(toolCallsInProgress) :
       /\ toolCallsInProgress[k].index = 0
       /\ toolCallsInProgress[k].id = "call_a"
       /\ toolCallsInProgress[k].name = "generate_image"
       /\ toolCallsInProgress[k].arguments = ArgsOpen \o ArgsClose
  /\ ~Truthy(FragLog[3].name)

\* An HTTP-OK response without a URL of a recognized scheme.
IsInvalidOk(resp) ==
  /\ resp.kind = "ok"
  /\ \/ resp.url = Undefined
     \/ ~(\/ StartsWith(resp.url, "data:image/")
          \/ StartsWith(resp.url, "http://")
          \/ StartsWith(resp.url, "https://"))

AllInvalidOk(call) ==
  /\ call.responses # <<>>
  /\ \A i \in 1..Len(call.responses) : IsInvalidOk(call.responses[i])

\* C4: a generateImage call never sends a fourth request, and a call whose
\* every response was HTTP-OK without a valid URL has, once it returned, sent
\* exactly 3 requests and failed with the per-call error of 3 attempts.
C4_ImageRetryBound ==
  \A k \in 1..Len(imageCalls) :
    LET call == imageCalls[k]
    IN /\ Len(call.requests) <= 3
       /\ (AllInvalidOk(call) /\ call.result # "pending") =>
            /\ Len(call.requests) = 3
            /\ Len(call.responses) = 3
            /\ call.result = "failed"
            /\ \E i \in 1..Len(frames) :
                 /\ IsError(frames[i])
                 /\ StartsWith(frames[i].error,
                      "Failed to generate image: No valid image URL returned after 3 attempts.")

\* C4 witness: a call that got three invalid HTTP-OK responses has failed.
C4_Witness ==
  \E k \in 1..Len(imageCalls) :
    /\ AllInvalidOk(imageCalls[k])
    /\ Len(imageCalls[k].responses) = 3
    /\ imageCalls[k].result = "failed"

\* C5: for every message list of the recognized wire shape,
\* convertMessagesToAPIFormat(transformMessages(m)) equals m.
C5_RoundTrip == normPc = "done" => normOut = normIn

\* C5 witness: a list of two messages with an image part was normalized to a
\* different (camelCase) form and converted back.
C5_Witness ==
  /\ normPc = "done"
  /\ Len(normIn) = 2
  /\ normMid # normIn
  /\ \E i \in 1..Len(normIn) :
       /\ normIn[i].content.kind = "parts"
       /\ \E j \in 1..Len(normIn[i].content.parts) :
            /\ normIn[i].content.parts[j].type = "image_url"
            /\ normIn[i].content.parts[j].image_url.detail = "low"

\* Every consumed chunk has a first choice carrying at most a content delta.
OnlyContentDeltas ==
  \A i \in 1..Len(consumed) :
    /\ consumed[i].hasChoice
    /\ ~Truthy(consumed[i].reasoning)
    /\ consumed[i].tool_calls = <<>>

RECURSIVE ContentFramesOf(_)
ContentFramesOf(chunks) ==
  IF chunks = <<>> THEN <<>>
  ELSE (IF Truthy(Head(chunks).content) THEN <<[content |-> Head(chunks).content]>> ELSE <<>>)
       \o ContentFramesOf(Tail(chunks))

RECURSIVE ContentLength(_)
ContentLength(chunks) ==
  IF chunks = <<>> THEN 0
  ELSE (IF Truthy(Head(chunks).content) THEN Len(Head(chunks).content) ELSE 0)
       + ContentLength(Tail(chunks))

\* C6: for a stream of content deltas only that ends normally, the frames are
\* one {content} frame per non-empty delta, in upstream order, then [DONE],
\* and the one outcome has success=true and responseLength equal to the sum
\* of the deltas' lengths.
C6_ContentRelay ==
  (pc = "done" /\ logData.error = Undefined /\ OnlyContentDeltas) =>
    /\ frames = ContentFramesOf(consumed) \o <<[literal |-> "[DONE]"]>>
    /\ Len(captured) = 1
    /\ captured[1].success = TRUE
    /\ captured[1].responseLength = ContentLength(consumed)

\* C6 witness: the stream "Hel", "lo" (finish_reason stop) was relayed and
\* the outcome reports responseLength 5.
C6_Witness ==
  /\ pc = "done"
  /\ Len(consumed) = 2
  /\ consumed[1].content = "Hel" /\ consumed[2].content = "lo"
  /\ consumed[2].finish_reason = "stop"
  /\ OnlyContentDeltas
  /\ frames = <<[content |-> "Hel"], [content |-> "lo"], [literal |-> "[DONE]"]>>
  /\ captured[1].responseLength = 5

RewrittenKeyMessage ==
  "Invalid or missing OpenRouter API key. Please check your OPENROUTER_API_KEY environment variable."

\* C7 as stated: when opening the stream fails with "User not found", the
\* single frame's `error` field is the rewritten API-key text, no [DONE] is
\* written, and an outcome record with success=false is emitted.
C7_Original_OpenFailureReported ==
  (pc = "done" /\ chunkCount = 0 /\ logData.error = RewrittenKeyMessage) =>
    /\ Len(frames) = 1
    /\ frames[1].error = RewrittenKeyMessage
    /\ Len(captured) = 1
    /\ captured[1].success = FALSE

\* A generateImage call whose first response carried a valid URL.
FirstAttemptOk(call) ==
  /\ Len(call.responses) = 1
  /\ call.responses[1].kind = "ok"
  /\ ~IsInvalidOk(call.responses[1])

\* The generateImage calls that returned a URL, in call order.
ReturnedCalls ==
  SelectSeq(imageCalls,
    LAMBDA call : /\ call.responses # <<>>
                  /\ Last(call.responses).kind = "ok"
                  /\ ~IsInvalidOk(Last(call.responses)))

ImageFrames == SelectSeq(frames, LAMBDA f : "type" \in DOMAIN f /\ f.type = "image")

\* C8: each generate_image call that returned a valid URL (in particular on
\* its first attempt) has exactly one {type:"image"} frame, carrying that URL
\* and the parsed prompt; image frames come after every content/reasoning
\* frame and before [DONE].
C8_ImageFrame ==
  /\ Len(ImageFrames) = Len(ReturnedCalls)
  /\ \A k \in 1..Len(ReturnedCalls) :
       /\ k <= Len(ImageFrames)
       /\ ImageFrames[k] =
            [type |-> "image", content |-> Last(ReturnedCalls[k].responses).url,
             prompt |-> "a cat"]
  /\ \A i, j \in 1..Len(frames) :
       ("type" \in DOMAIN frames[i] /\ frames[i].type = "image") =>
         /\ (DOMAIN frames[j] = {"content"} \/ DOMAIN frames[j] = {"reasoning"}) => j < i
         /\ frames[j] = [literal |-> "[DONE]"] => i < j
  /\ pc = "done" /\ (\E k \in 1..Len(imageCalls) : FirstAttemptOk(imageCalls[k])) =>
       frames[Len(frames)] = [literal |-> "[DONE]"]

\* C8 witness: content was relayed, one generate_image call succeeded on its
\* first attempt, its image frame was written and the stream was finalized.
C8_Witness ==
  /\ pc = "done"
  /\ Len(imageCalls) = 1
  /\ FirstAttemptOk(imageCalls[1])
  /\ \E i \in 1..Len(frames) : DOMAIN frames[i] = {"content"}
  /\ \E i \in 1..Len(frames) :
       frames[i] = [type |-> "image", content |-> "https://cdn/i.png", prompt |-> "a cat"]

\* C9 as stated: once the client has disconnected, the relay consumes no
\* further chunk, writes no further frame, starts no tool dispatch and sends
\* no image request, and the outcome is still recorded exactly once.
C9_Original_StopsOnDisconnect ==
  ~clientConnected =>
    /\ chunkCount = closedAt.chunks
    /\ Len(frames) = closedAt.frames
    /\ DispatchesStarted = closedAt.dispatches
    /\ TotalRequests = closedAt.requests
    /\ pc = "done" => Len(captured) = 1

\* C10 as stated: every request emits its outcome record through
\* captureEvent('message_sent') exactly once, on every exit path.
C10_Original_OutcomeExactlyOnce == pc = "done" => Len(captured) = 1

\* The tool calls the dispatch loop has finished with, in iteration order.
DispatchedCalls ==
  IF dispatchPos = 0 THEN <<>>
  ELSE SelectSeq(SubSeq(toolCallsInProgress, 1, dispatchPos - 1),
         LAMBDA tc : tc.name \in {"generate_image", "show_youtube_video"})

\* The frames the dispatch loop has written.
DispatchFrames ==
  SelectSeq(frames,
    LAMBDA f : \/ ("type" \in DOMAIN f /\ f.type \in {"image", "youtube"})
               \/ IsInlineError(f))

\* The frame `f` is the one output of dispatching the tool call `tc`.
FrameOfCall(f, tc) ==
  IF tc.name = "generate_image"
  THEN \/ ("type" \in DOMAIN f /\ f.type = "image")
       \/ (IsError(f) /\ StartsWith(f.error, "Failed to generate image: "))
  ELSE \/ ("type" \in DOMAIN f /\ f.type = "youtube")
       \/ (IsError(f) /\ StartsWith(f.error, "Failed to embed YouTube video: "))

\* C11: a failure while dispatching one resolved tool call produces one
\* inline error frame for that call only: every dispatched call, failed or
\* not, has exactly one frame of its own tool, in dispatch order; every
\* resolved call is dispatched, and the stream is then finalized with [DONE]
\* and ended.
C11_DispatchFailureIsolated ==
  /\ Len(DispatchFrames) = Len(DispatchedCalls)
  /\ \A k \in 1..Len(DispatchedCalls) :
       k <= Len(DispatchFrames) => FrameOfCall(DispatchFrames[k], DispatchedCalls[k])
  /\ (pc = "done" /\ dispatchPos > 0) =>
       /\ dispatchPos = Len(toolCallsInProgress) + 1
       /\ frames[Len(frames)] = [literal |-> "[DONE]"]
       /\ ended = <<Len(frames)>>

\* C11 witness: the first of two tool calls failed (its argument buffer does
\* not parse), the second was still dispatched and its frame follows the
\* inline error frame; the stream was finalized.
C11_Witness ==
  /\ pc = "done"
  /\ Len(toolCallsInProgress) = 2
  /\ Len(DispatchFrames) = 2
  /\ IsInlineError(DispatchFrames[1])
  /\ "type" \in DOMAIN DispatchFrames[2]
  /\ frames[Len(frames)] = [literal |-> "[DONE]"]

\* C12 as stated: tool calls are dispatched one after another (at most one
\* generateImage call is pending, and it is the latest) and in ascending order
\* of their tool-call index, whatever order the indices first appeared in.
C12_Original_AscendingSequential ==
  /\ \A k \in 1..(Len(imageCalls) - 1) : imageCalls[k].result # "pending"
  /\ \A k, l \in 1..DispatchesStarted :
       (/\ k < l
        /\ toolCallsInProgress[k].name \in {"generate_image", "show_youtube_video"}
        /\ toolCallsInProgress[l].name \in {"generate_image", "show_youtube_video"})
         => toolCallsInProgress[k].index < toolCallsInProgress[l].index

\* C13: in every request the event-stream headers are set exactly once and
\* before any frame is written, on the success path and on every failure
\* path.
C13_HeadersOnceFirst ==
  /\ Len(headerSets) <= 1
  /\ pc # "start" => headerSets = <<0>>
  /\ frames # <<>> => headerSets = <<0>>

\* C13 witness: a request whose stream could not be opened has set its
\* headers once, before its only frame.
C13_Witness ==
  /\ pc = "done"
  /\ sent = 1
  /\ Len(frames) = 1
  /\ "details" \in DOMAIN frames[1]
  /\ headerSets = <<0>>

\* OPENROUTER_API_KEY is unset, empty or whitespace-only.
KeyAbsent == envKey \in {Undefined, "", "  "}

\* C14: when OPENROUTER_API_KEY is unset, empty or whitespace-only, streamChat
\* makes no upstream request, writes exactly one error frame and no [DONE],
\* and ends the response; nothing is retried.
C14_MissingKey ==
  KeyAbsent =>
    /\ sent = 0 /\ imageCalls = <<>> /\ chunkCount = 0
    /\ pc \in {"start", "done"}
    /\ pc = "done" =>
         /\ frames = <<[error |-> "Failed to initialize chat stream",
                        details |-> "OPENROUTER_API_KEY environment variable is not set or is empty"]>>
         /\ ended = <<1>>

\* C14 witness: a request under a whitespace-only key has returned.
C14_Witness ==
  /\ envKey = "  "
  /\ pc = "done"
  /\ Len(frames) = 1
  /\ ended = <<1>>

\* The frames the relay forwards for a sequence of chunks.
RECURSIVE ForwardedFrames(_)
ForwardedFrames(chunks) ==
  IF chunks = <<>> THEN <<>>
  ELSE LET c == Head(chunks)
       IN (IF c.hasChoice /\ Truthy(c.reasoning) THEN <<[reasoning |-> c.reasoning]>> ELSE <<>>)
          \o (IF c.hasChoice /\ Truthy(c.content) THEN <<[content |-> c.content]>> ELSE <<>>)
          \o ForwardedFrames(Tail(chunks))

\* The request ended on a failure raised after the stream was opened.
FailedMidStream ==
  /\ pc = "done"
  /\ logData.error # Undefined
  /\ \A i \in 1..Len(frames) : "details" \notin DOMAIN frames[i]

\* C15: when the upstream iterator raises after k chunks were consumed
\* (k >= 0), the frames are those already forwarded for the k chunks followed
\* by exactly one {error} frame carrying the failure message, the response is
\* ended, and the one outcome has success=false.
C15_MidStreamFailure ==
  FailedMidStream =>
    /\ chunkCount = Len(consumed)
    /\ logData.error \in {"socket hang up", "Stream error"}
    /\ frames = ForwardedFrames(consumed) \o <<[error |-> logData.error]>>
    /\ ended = <<Len(frames)>>
    /\ Len(captured) = 1
    /\ captured[1].success = FALSE
    /\ captured[1].error = logData.error
    /\ captured[1].chunkCount = Len(consumed)

\* C15 witness: the iterator raised after two chunks, the first of which
\* was forwarded as a content frame.
C15_Witness ==
  /\ pc = "done"
  /\ Len(consumed) = 2
  /\ Len(frames) >= 2
  /\ frames[1] = [content |-> "Hel"]
  /\ frames[Len(frames)] = [error |-> "socket hang up"]
  /\ captured[1].success = FALSE

\* What the client receives: the frames written before the response ended.
Received == IF ended = <<>> THEN frames ELSE SubSeq(frames, 1, ended[1])

\* C16 as stated: a captureEvent that throws never changes what the client
\* receives: on the success path the received frames still end with a single
\* [DONE], and on the mid-stream failure path the {error} frame is still
\* written and the response is still ended.
C16_Original_RecorderFailureInvisible ==
  /\ (pc \in {"done", "threw"} /\ logData.error = "posthog: capture failed") =>
       /\ Received # <<>>
       /\ Received[Len(Received)] = [literal |-> "[DONE]"]
       /\ \A i \in 1..(Len(Received) - 1) : Received[i] # [literal |-> "[DONE]"]
  /\ (pc = "threw" /\ logData.error \in {"socket hang up", "Stream error"}) =>
       /\ frames # <<>>
       /\ IsError(frames[Len(frames)])
       /\ ended # <<>>

\* C17 as stated: no failure escapes streamChat: for every request, also one
\* whose messages hold a malformed content part, the handler does not throw,
\* and a response that ended on a failure contains an {error} frame and is
\* ended.
C17_Original_NoFailureEscapes ==
  /\ pc # "threw"
  /\ (pc = "done" /\ logData.error # Undefined) =>
       /\ \E i \in 1..Len(frames) : IsError(frames[i])
       /\ ended # <<>>

\* C19: the non-streaming chat operation, when OPENROUTER_API_KEY is unset,
\* empty or whitespace-only, throws an HttpException with status 500 before
\* any upstream request is made.
C19_ChatMissingKey ==
  (chatCall.pc # "idle" /\ chatCall.key \in {Undefined, "", "  "}) =>
    /\ chatCall.sent = 0
    /\ chatCall.pc \in {"start", "threw"}
    /\ chatCall.pc = "threw" =>
         /\ chatCall.thrown.kind = "HttpException"
         /\ chatCall.thrown.status = 500
         /\ chatCall.result = Undefined

\* C19 witness: a call under a whitespace-only key has thrown its
\* HttpException.
C19_Witness ==
  /\ chatCall.pc = "threw"
  /\ chatCall.key = "  "
  /\ chatCall.thrown.kind = "HttpException"
  /\ chatCall.thrown.response =
       [error |-> "OPENROUTER_API_KEY environment variable is not set or is empty"]

\* The file of the upload call is of a MIME type that is not accepted.
BadMimeType ==
  upload.file.mimetype \notin
    {"image/jpeg", "image/jpg", "image/png", "image/gif", "image/webp"}

\* C20: uploadImage rejects with HttpException 400 any file whose MIME type
\* is not image/jpeg, image/jpg, image/png, image/gif or image/webp, and any
\* file larger than 10MB (10485760 bytes); a file of exactly 10MB is
\* accepted; on either rejection no bytes are uploaded to storage.
C20_UploadValidation ==
  (upload.pc \notin {"idle", "start"}) =>
    /\ (BadMimeType \/ upload.file.size > 10485760) =>
         /\ upload.pc = "threw"
         /\ upload.thrown.kind = "HttpException"
         /\ upload.thrown.status = 400
         /\ upload.uploads = <<>>
    /\ (~BadMimeType /\ upload.file.size <= 10485760) =>
         /\ Len(upload.uploads) = 1
         /\ upload.uploads[1].bytes = upload.file.size
         /\ upload.thrown.kind # "HttpException"

\* C20 witness: a PNG one byte over 10MB was rejected without an upload.
C20_Witness ==
  /\ upload.pc = "threw"
  /\ upload.file.mimetype = "image/png"
  /\ upload.file.size = 10485761
  /\ upload.thrown.status = 400
  /\ upload.uploads = <<>>

\* The locals of request r of the two interleaved requests.
RequestLocals(r) == IF reqs.running = r THEN Locals ELSE reqs.suspended

RECURSIVE ContentOf(_)
ContentOf(chunks) ==
  IF chunks = <<>> THEN ""
  ELSE (IF Head(chunks).hasChoice /\ Truthy(Head(chunks).content)
        THEN Head(chunks).content ELSE "") \o ContentOf(Tail(chunks))

RECURSIVE ReasoningOf(_)
ReasoningOf(chunks) ==
  IF chunks = <<>> THEN ""
  ELSE (IF Head(chunks).hasChoice /\ Truthy(Head(chunks).reasoning)
        THEN Head(chunks).reasoning ELSE "") \o ReasoningOf(Tail(chunks))

RECURSIVE LastUsage(_)
LastUsage(chunks) ==
  IF chunks = <<>> THEN <<>>
  ELSE IF chunks[Len(chunks)].usage # <<>> THEN chunks[Len(chunks)].usage
  ELSE LastUsage(SubSeq(chunks, 1, Len(chunks) - 1))

\* The markers the dispatch appends to the response buffer, by its frames.
RECURSIVE TagsOf(_)
TagsOf(fs) ==
  IF fs = <<>> THEN ""
  ELSE (IF "type" \in DOMAIN Head(fs) /\ Head(fs).type = "image"
        THEN "[IMAGE:" \o Head(fs).content \o "]" ELSE "") \o TagsOf(Tail(fs))

\* The frames, buffers, counters, usage and outcome of the request with
\* locals q are those its own chunks and its own image responses determine.
OwnOnly(q) ==
  LET fw == ForwardedFrames(q.consumed)
  IN /\ q.chunkCount = Len(q.consumed)
     /\ q.fullReasoning = ReasoningOf(q.consumed)
     /\ q.fullResponse = ContentOf(q.consumed) \o TagsOf(q.frames)
     /\ q.usageData = LastUsage(q.consumed)
     /\ Len(q.frames) >= Len(fw)
     /\ SubSeq(q.frames, 1, Len(fw)) = fw
     /\ \A i \in (Len(fw) + 1)..Len(q.frames) :
          /\ DOMAIN q.frames[i] # {"content"} /\ DOMAIN q.frames[i] # {"reasoning"}
          /\ ("type" \in DOMAIN q.frames[i] /\ q.frames[i].type = "image") =>
               \E k \in 1..Len(q.imageCalls) :
                 /\ q.imageCalls[k].responses # <<>>
                 /\ Last(q.imageCalls[k].responses).url = q.frames[i].content
     /\ \A k \in 1..Len(q.captured) :
          /\ q.captured[k].chunkCount = Len(q.consumed)
          /\ q.captured[k].responseLength = Len(q.fullResponse)
          /\ q.captured[k].reasoningLength = Len(ReasoningOf(q.consumed))
          /\ q.captured[k].messageCount = Len(q.body)
          /\ q.captured[k].totalTokens =
               (IF LastUsage(q.consumed) = <<>> THEN <<>>
                ELSE <<LastUsage(q.consumed)[1].total_tokens>>)

RECURSIVE ForwardedLength(_)
ForwardedLength(fs) ==
  IF fs = <<>> THEN 0
  ELSE (IF IsContent(Head(fs)) THEN Len(Head(fs).content) ELSE 0)
       + ForwardedLength(Tail(fs))

\* C25 (as stated): the responseLength of the success outcome equals the
\* cumulative length of the text forwarded as {content} frames, whether or
\* not tool calls were dispatched.
C25_Original_ResponseLengthIsForwardedText ==
  \A i \in 1..Len(captured) :
    captured[i].responseLength = ForwardedLength(frames)

\* The cumulative length of the markers the dispatch appends to the response
\* buffer: one per image frame and one per video frame written.
RECURSIVE MarkersLength(_)
MarkersLength(fs) ==
  IF fs = <<>> THEN 0
  ELSE (IF IsImage(Head(fs)) THEN Len("[IMAGE:" \o Head(fs).content \o "]")
        ELSE IF IsYoutube(Head(fs))
        THEN Len("[YOUTUBE:"
                 \o (IF "videoId" \in DOMAIN Head(fs) THEN Head(fs).videoId
                     ELSE "undefined")
                 \o "]")
        ELSE 0)
       + MarkersLength(Tail(fs))

\* C25 (amended): the responseLength of the outcome equals the cumulative
\* length of the text forwarded as {content} frames plus the length of one
\* `[IMAGE:url]` or `[YOUTUBE:videoId]` marker per image or video frame the
\* dispatch has written; without such a frame it is the forwarded text
\* length alone.
C25_ResponseLengthWithMarkers ==
  \A i \in 1..Len(captured) :
    captured[i].responseLength = ForwardedLength(frames) + MarkersLength(frames)

\* C25 witness: "Hel" was forwarded and an image was generated; the outcome
\* reports 3 characters of text plus the 25 of the marker.
C25_Witness ==
  /\ pc = "done"
  /\ Len(captured) = 1
  /\ captured[1].success = TRUE
  /\ Len(frames) = 3
  /\ frames[1] = [content |-> "Hel"]
  /\ IsImage(frames[2]) /\ frames[2].content = "https://cdn/i.png"
  /\ IsDone(frames[3])
  /\ captured[1].responseLength = 28

\* The image calls that received the 60 s abort as an answer.
TimedOutCalls ==
  SelectSeq(imageCalls,
    LAMBDA call : \E j \in 1..Len(call.responses) : call.responses[j].kind = "timeout")

\* The inline error frames that report the dedicated timeout error.
TimeoutFrames ==
  SelectSeq(frames,
    LAMBDA f : IsError(f)
               /\ StartsWith(f.error, "Failed to generate image: Image generation timed out"))

\* C26: an image attempt aborted by the 60 s timeout fails the call with the
\* dedicated 'Image generation timed out' error and starts no further
\* attempt, whatever the attempt counter: the aborted attempt is the call's
\* last request and last response, the call has failed, and the dispatch has
\* written one inline timeout error frame for it.
C26_TimeoutEndsCall ==
  /\ \A k \in 1..Len(imageCalls) :
       \A j \in 1..Len(imageCalls[k].responses) :
         imageCalls[k].responses[j].kind = "timeout" =>
           /\ j = Len(imageCalls[k].responses)
           /\ j = Len(imageCalls[k].requests)
           /\ imageCalls[k].result = "failed"
  /\ Len(TimeoutFrames) = Len(TimedOutCalls)

\* C26 witness: the second attempt of a call (after one invalid answer) was
\* aborted; the call failed after two requests and the request was finalized
\* with the timeout error frame before [DONE].
C26_Witness ==
  /\ pc = "done"
  /\ Len(imageCalls) = 1
  /\ Len(imageCalls[1].responses) = 2
  /\ imageCalls[1].responses[1].kind = "ok"
  /\ imageCalls[1].responses[2].kind = "timeout"
  /\ Len(imageCalls[1].requests) = 2
  /\ Len(TimeoutFrames) = 1
  /\ IsDone(Last(frames))

\* C27 (as stated): a {type:'youtube'} frame is written only when the parsed
\* arguments contain a videoId; the path makes no network call.
C27_Original_YoutubeNeedsVideoId ==
  /\ \A i \in 1..Len(frames) :
       IsYoutube(frames[i]) => "videoId" \in DOMAIN frames[i]
  /\ (\A k \in 1..Len(toolCallsInProgress) :
        toolCallsInProgress[k].name # "generate_image") => imageCalls = <<>>

\* The resolved tool calls whose name is neither of the two tools.
UnknownTool(tc) == tc.name \notin {"generate_image", "show_youtube_video"}

\* The number of generate_image entries among the first n resolved calls.
RECURSIVE ImageEntries(_)
ImageEntries(n) ==
  IF n = 0 THEN 0
  ELSE (IF toolCallsInProgress[n].name = "generate_image" THEN 1 ELSE 0)
       + ImageEntries(n - 1)

\* C28: a resolved tool call whose name is neither generate_image nor
\* show_youtube_video produces no frame and no side-effect call: image
\* requests are made for generate_image entries only, and when every
\* resolved call is unknown the frames are the forwarded deltas, then [DONE]
\* when the request is finalized.
C28_UnknownToolIgnored ==
  /\ Len(imageCalls) <= ImageEntries(Len(toolCallsInProgress))
  /\ (dispatchPos > 0 /\ \A k \in 1..Len(toolCallsInProgress) :
                           UnknownTool(toolCallsInProgress[k])) =>
       /\ imageCalls = <<>>
       /\ DispatchFrames = <<>>
       /\ pc \in {"dispatch", "done"}
       /\ pc = "dispatch" => frames = ForwardedFrames(consumed)
       /\ pc = "done" =>
            /\ frames = ForwardedFrames(consumed) \o <<[literal |-> "[DONE]"]>>
            /\ ended = <<Len(frames)>>

\* C28 witness: the one resolved call names get_weather; the request was
\* finalized with [DONE] as its only frame and a success outcome that counts
\* the tool call.
C28_Witness ==
  /\ pc = "done"
  /\ Len(toolCallsInProgress) = 1
  /\ toolCallsInProgress[1].name = "get_weather"
  /\ frames = <<[literal |-> "[DONE]"]>>
  /\ Len(captured) = 1
  /\ captured[1].success = TRUE
  /\ captured[1].toolCallCount = 1

\* C29: chunks are processed one at a time in upstream order: a chunk
\* without a first choice produces no frame, a chunk's reasoning frame
\* precedes its content frame, and all frames of one chunk precede those of
\* the next; while the stream is read the frames are exactly these.
C29_ChunkOrder ==
  LET fw == ForwardedFrames(consumed)
  IN /\ Len(frames) >= Len(fw)
     /\ SubSeq(frames, 1, Len(fw)) = fw
     /\ pc = "streaming" => frames = fw
     /\ chunkCount = Len(consumed)

\* C29 witness: a chunk with reasoning and content, a chunk without choices
\* and a chunk with content were read; three frames were written.
C29_Witness ==
  /\ pc = "streaming"
  /\ Len(consumed) = 3
  /\ consumed[1].hasChoice /\ consumed[1].reasoning = "hm" /\ consumed[1].content = "Hel"
  /\ ~consumed[2].hasChoice
  /\ consumed[3].content = "lo"
  /\ frames = <<[reasoning |-> "hm"], [content |-> "Hel"], [content |-> "lo"]>>

\* C30: the usage of the outcome is the usage object of the last chunk that
\* carried one (a chunk without choices included); the token fields are
\* absent when no chunk carried one.
C30_UsageLastWins ==
  /\ usageData = LastUsage(consumed)
  /\ \A i \in 1..Len(captured) :
       LET u == LastUsage(consumed)
       IN /\ captured[i].inputTokens =
               (IF u = <<>> THEN <<>> ELSE <<u[1].prompt_tokens>>)
          /\ captured[i].outputTokens =
               (IF u = <<>> THEN <<>> ELSE <<u[1].completion_tokens>>)
          /\ captured[i].totalTokens =
               (IF u = <<>> THEN <<>> ELSE <<u[1].total_tokens>>)

\* C30 witness: a chunk with a choice carried usage (3, 2), a later chunk
\* without choices carried usage (7, 5); the success outcome reports 7, 5, 12.
C30_Witness ==
  /\ pc = "done"
  /\ Len(consumed) = 2
  /\ consumed[1].hasChoice /\ consumed[1].usage # <<>>
  /\ ~consumed[2].hasChoice /\ consumed[2].usage # <<>>
  /\ Len(captured) = 1
  /\ captured[1].success = TRUE
  /\ captured[1].inputTokens = <<7>>
  /\ captured[1].outputTokens = <<5>>
  /\ captured[1].totalTokens = <<12>>

\* The response of the document controller once it has answered.
Answered400(error) ==
  document.pc = "done" =>
    /\ document.response.status = 400
    /\ document.response.body.error = error

\* C21 (as stated): parseDocument responds 400 without invoking the parser
\* when no file is given, when the file is larger than 25MB ('File too
\* large', exactly 25MB being accepted) and when the MIME type is neither in
\* the allowed list nor text/* ('Unsupported file type', also for a missing
\* MIME type).
C21_Original_DocumentValidation ==
  document.pc # "idle" =>
    /\ document.file = NoFile =>
         document.calls = <<>> /\ Answered400("No file provided")
    /\ (document.file # NoFile /\ document.file.size > 25 * 1024 * 1024) =>
         document.calls = <<>> /\ Answered400("File too large")
    /\ (document.file # NoFile /\ document.file.size <= 25 * 1024 * 1024
        /\ document.file.mimetype \in {"application/x-msdownload", Undefined}) =>
         document.calls = <<>> /\ Answered400("Unsupported file type")

\* The parser each MIME type of DocumentMimeTypes is to be handed to.
ExpectedParser(mimeType) ==
  IF mimeType \in {"application/pdf", "APPLICATION/PDF"} THEN "parsePdf"
  ELSE IF mimeType = DocxMime THEN "parseDocx"
  ELSE IF mimeType = XlsxMime THEN "parseXlsx"
  ELSE IF mimeType = PptxMime THEN "parsePptx"
  ELSE IF mimeType = "text/html" THEN "parseHtml"
  ELSE IF mimeType \in {"text/plain", "Text/Markdown"} THEN "text"
  ELSE "unsupported"

\* C22: DocumentParserService.parseDocument selects the parser from the
\* lower-cased MIME type (pdf, docx, xlsx, pptx, text/html, then any other
\* text/*), rejects every other type, and every failure (unsupported type,
\* an Error of the library, a rejection that is no Error) is an error whose
\* message starts with 'Failed to parse document: '.
C22_ParserSelection ==
  document.pc \in {"library", "settled", "done"} /\ document.calls # <<>> =>
    LET mimeType == document.calls[1].mimeType
    IN /\ Len(document.calls) = 1
       /\ document.parser = ExpectedParser(mimeType)
       /\ document.pc \in {"settled", "done"} =>
            /\ document.parser = "unsupported" =>
                 /\ ~document.result.ok
                 /\ document.result.value =
                      "Failed to parse document: Unsupported MIME type: " \o mimeType
            /\ (document.parser \in LibraryParsers
                /\ document.library.kind = "rejected") =>
                 /\ ~document.result.ok
                 /\ document.result.value =
                      "Failed to parse document: "
                        \o (IF document.library.isError THEN "Parse failed"
                            ELSE "Unknown error")
            /\ ~document.result.ok =>
                 StartsWith(document.result.value, "Failed to parse document: ")
            /\ document.result.ok <=>
                 \/ document.parser = "text"
                 \/ (document.parser \in LibraryParsers
                     /\ document.library.kind = "resolved")

\* C22 witness: an upper-case PDF type selected the PDF parser, whose
\* library rejected with a value that is no Error; the service failed with
\* the wrapped 'Unknown error'.
C22_Witness ==
  /\ document.pc = "done"
  /\ document.file # NoFile
  /\ document.file.mimetype = "APPLICATION/PDF"
  /\ document.parser = "parsePdf"
  /\ document.result = Rejected("Failed to parse document: Unknown error")
  /\ document.response.status = 400

\* C23 (as stated): for every exception it catches the filter sets
\* Access-Control-Allow-Origin to the request's origin when it is in the
\* allowed list, to '*' when the request has no origin and to
\* 'http://localhost:3000' otherwise, and Access-Control-Allow-Headers to
\* 'Content-Type, Authorization, X-Requested-With, X-Client-Id'.
C23_Original_FilterCors ==
  filtered.pc = "done" =>
    /\ Len(filtered.headers) = 1
    /\ filtered.headers[1].ACAO =
         (IF filtered.origin = Undefined THEN "*"
          ELSE IF filtered.origin \in
                    {"http://localhost:3000", "http://localhost:9955",
                     "https://graphai.one", "https://www.graphai.one",
                     "https://api.graphai.one"}
          THEN filtered.origin
          ELSE "http://localhost:3000")
    /\ filtered.headers[1].ACAH =
         "Content-Type, Authorization, X-Requested-With, X-Client-Id"

\* The values of the chunks the reader has delivered, in reader order.
RECURSIVE ReaderValues(_)
ReaderValues(results) ==
  IF results = <<>> THEN <<>>
  ELSE (IF Head(results).kind = "value" THEN <<Head(results).value>> ELSE <<>>)
       \o ReaderValues(Tail(results))

\* C24: in the audio-streaming path the chunks are written in reader order
\* and the response is terminated exactly once: by res.end() when the reader
\* reports done; when a read fails, by a 500 JSON error if no header was
\* sent yet (no chunk written) and by res.end() otherwise.
C24_AudioPump ==
  tts.headers = AudioHeaders /\ tts.pc \in {"pumping", "done"}
  /\ (tts.pc = "done" => tts.results # <<>>) =>
    /\ tts.written = ReaderValues(tts.results)
    /\ tts.pc = "pumping" => tts.terminated = <<>>
    /\ tts.pc = "done" =>
         LET last == tts.results[Len(tts.results)]
         IN /\ Len(tts.terminated) = 1
            /\ last.kind \in {"done", "rejected"}
            /\ last.kind = "done" => tts.terminated = <<"end">>
            /\ (last.kind = "rejected" /\ tts.written = <<>>) =>
                 /\ tts.terminated = <<"json">>
                 /\ tts.response.status = 500
                 /\ tts.response.body.error = "Failed to stream audio"
            /\ (last.kind = "rejected" /\ tts.written # <<>>) =>
                 /\ tts.terminated = <<"end">>
                 /\ tts.response = NoResponse

\* C24 witness: two chunks were written in reader order, then a read failed
\* and the response was ended with res.end(), once.
C24_Witness ==
  /\ tts.pc = "done"
  /\ Len(tts.results) = 3
  /\ tts.results[3].kind = "rejected"
  /\ tts.written = <<"ID3", "fffb">>
  /\ tts.terminated = <<"end">>

\* The request reached the end of the upstream stream and was finalized.
EndedNormally == pc = "done" /\ dispatchPos > 0 /\ logData.error = Undefined

\* C31: on normal stream end the outcome is marked 'no content' exactly
\* when no content and no reasoning was forwarded and the accumulator holds
\* no tool call; in that case [DONE] is still written (as the only frame)
\* and the outcome is reported with success=true.
C31_NoContentFlag ==
  EndedNormally =>
    /\ logData.noContent = TRUE <=>
         (ForwardedFrames(consumed) = <<>> /\ toolCallsInProgress = <<>>)
    /\ logData.noContent = TRUE <=> logData.streamStatus = "WARN"
    /\ frames[Len(frames)] = [literal |-> "[DONE]"]
    /\ Len(captured) = 1
    /\ captured[1].success = TRUE
    /\ logData.noContent = TRUE =>
         /\ frames = <<[literal |-> "[DONE]"]>>
         /\ captured[1].responseLength = 0
         /\ captured[1].reasoningLength = 0
         /\ captured[1].toolCallCount = 0

\* C31 witness: two chunks were read, one without choices and one with an
\* empty content delta; the request ended with [DONE] only, marked 'no
\* content', with a success outcome.
C31_Witness ==
  /\ EndedNormally
  /\ Len(consumed) = 2
  /\ logData.noContent = TRUE
  /\ frames = <<[literal |-> "[DONE]"]>>
  /\ Len(captured) = 1
  /\ captured[1].success = TRUE
  /\ captured[1].chunkCount = 2

\* C32: every {type:"image"} frame carries a content URL that begins with
\* data:image/, http:// or https://; an HTTP-OK response whose URL is missing
\* or has another prefix is never forwarded, and it triggers a retry: the
\* first and the second such response of a call are followed by a new
\* request, the third one ends the call as failed (the retry bound).
C32_ImageUrlScheme ==
  /\ \A i \in 1..Len(frames) :
       IsImage(frames[i]) =>
         \/ StartsWith(frames[i].content, "data:image/")
         \/ StartsWith(frames[i].content, "http://")
         \/ StartsWith(frames[i].content, "https://")
  /\ \A k \in 1..Len(imageCalls) :
       \A j \in 1..Len(imageCalls[k].responses) :
         IsInvalidOk(imageCalls[k].responses[j]) =>
           /\ \A i \in 1..Len(frames) :
                IsImage(frames[i]) => frames[i].content # imageCalls[k].responses[j].url
           /\ j <= 2 => Len(imageCalls[k].requests) >= j + 1
           /\ j > 2 => /\ j = Len(imageCalls[k].responses)
                       /\ imageCalls[k].result = "failed"
           /\ j = Len(imageCalls[k].responses) =>
                imageCalls[k].result \in {"pending", "failed"}

\* C32 witness: the first answer of a call carried an ftp:// URL and was
\* retried; the second carried an https:// URL, which was forwarded in the
\* one image frame of the request.
C32_Witness ==
  /\ pc = "done"
  /\ Len(imageCalls) = 1
  /\ Len(imageCalls[1].responses) = 2
  /\ imageCalls[1].responses[1] = [kind |-> "ok", url |-> "ftp://x"]
  /\ imageCalls[1].responses[2] = [kind |-> "ok", url |-> "https://cdn/i.png"]
  /\ Len(imageCalls[1].requests) = 2
  /\ Len(ImageFrames) = 1
  /\ ImageFrames[1].content = "https://cdn/i.png"

\* C33: image generation never mutates the request's normalized message
\* list (it stays the normalization of the body's messages), and every
\* attempt, initial or retry, sends exactly the system preamble, the n
\* messages of that list and the prompt as trailing user turn: n+2 messages,
\* the same for every attempt of a call.
C33_ImageRequestShape ==
  imageCalls # <<>> =>
    /\ transformed = transformMessages(body)
    /\ \A k \in 1..Len(imageCalls) :
         \A j \in 1..Len(imageCalls[k].requests) :
           LET request == imageCalls[k].requests[j]
               n == Len(transformed)
           IN /\ Len(request) = n + 2
              /\ request[1].role = "system"
              /\ SubSeq(request, 2, n + 1) = convertMessagesToAPIFormat(transformed)
              /\ request[n + 2] =
                   convertMessagesToAPIFormat(
                     <<[role |-> "user",
                        content |-> StringContent(imageCalls[k].prompt)]>>)[1]
              /\ request = imageCalls[k].requests[1]

\* C33 witness: a call made three attempts over a list of two messages;
\* each of its three requests holds four messages.
C33_Witness ==
  /\ Len(transformed) = 2
  /\ Len(imageCalls) = 1
  /\ Len(imageCalls[1].requests) = 3
  /\ \A j \in 1..3 : Len(imageCalls[1].requests[j]) = 4

\* C34: tool dispatch happens only after the upstream stream is exhausted
\* and once per accumulator entry: while the stream is read no image, video
\* or dispatch-error frame is written and no image request is made, even
\* after a chunk with a finish reason; the step that starts the dispatch
\* reads no chunk, no chunk is read once it has started, and the dispatch
\* position only advances, by one entry and at most one frame per step.
C34_DispatchAfterExhaustion ==
  /\ [](pc = "streaming" =>
         dispatchPos = 0 /\ DispatchFrames = <<>> /\ imageCalls = <<>>)
  /\ [][/\ dispatchPos' # dispatchPos => consumed' = consumed
        /\ dispatchPos > 0 => consumed' = consumed
        /\ dispatchPos' \in {dispatchPos, dispatchPos + 1}
        /\ Len(DispatchFrames') <= Len(DispatchFrames) + 1
        /\ Len(DispatchFrames') > Len(DispatchFrames) => dispatchPos' = dispatchPos + 1]_vars

\* C34 witness: a chunk with finish_reason "stop" was read, a later chunk
\* brought a tool call, and the call's frame was written in the dispatch
\* after both chunks were consumed.
C34_Witness ==
  /\ pc = "done"
  /\ Len(consumed) = 2
  /\ consumed[1].finish_reason = "stop"
  /\ consumed[2].tool_calls # <<>>
  /\ Len(DispatchFrames) = 1
  /\ dispatchPos = 2

\* C35 (as stated): for a message list whose messages have a recognized
\* role and string or list content, transformMessages raises no error, and
\* a content part of a user or assistant message whose type is neither text
\* nor image_url is passed through unchanged.
C35_Original_TransformTotal ==
  /\ normPc # "threw"
  /\ normPc \in {"normalized", "done"} =>
       \A i \in 1..Len(normIn) :
         (normIn[i].role \in {"user", "assistant"} /\ normIn[i].content.kind = "parts") =>
           \A j \in 1..Len(normIn[i].content.parts) :
             normIn[i].content.parts[j].type \notin {"text", "image_url"} =>
               normMid[i].content.parts[j] = normIn[i].content.parts[j]

\* The image calls that were answered with a non-OK HTTP status.
NotOkCalls ==
  SelectSeq(imageCalls,
    LAMBDA call : \E j \in 1..Len(call.responses) : call.responses[j].kind = "not_ok")

\* The inline error frames that report a non-OK answer of the image peer.
NotOkFrames ==
  SelectSeq(frames,
    LAMBDA f : IsError(f)
               /\ StartsWith(f.error, "Failed to generate image: Image generation failed: "))

\* C36: generateImage retries only on an invalid HTTP-OK response: a non-OK
\* status fails the call with 'Image generation failed: ...' and no further
\* request, at any attempt counter; every request before it was answered
\* HTTP-OK with an invalid URL.
C36_NoRetryOnNotOk ==
  /\ \A k \in 1..Len(imageCalls) :
       \A j \in 1..Len(imageCalls[k].responses) :
         /\ imageCalls[k].responses[j].kind = "not_ok" =>
              /\ j = Len(imageCalls[k].responses)
              /\ j = Len(imageCalls[k].requests)
              /\ imageCalls[k].result = "failed"
         /\ j < Len(imageCalls[k].requests) => IsInvalidOk(imageCalls[k].responses[j])
  /\ Len(NotOkFrames) = Len(NotOkCalls)

\* C36 witness: after one retry the image peer answered with a non-OK
\* status; the call failed after its second request and the request was
\* finalized with the inline error frame.
C36_Witness ==
  /\ pc = "done"
  /\ Len(imageCalls) = 1
  /\ Len(imageCalls[1].responses) = 2
  /\ imageCalls[1].responses[2].kind = "not_ok"
  /\ Len(imageCalls[1].requests) = 2
  /\ imageCalls[1].result = "failed"
  /\ Len(NotOkFrames) = 1
  /\ NotOkFrames[1].error = "Failed to generate image: Image generation failed: quota"

\* C37: when the upstream iterator raises mid-stream, the tool calls held
\* in the accumulator are never dispatched: the dispatch loop is not
\* entered, no image request is issued and no image, video or dispatch-error
\* frame is written for that request.
C37_NoDispatchAfterStreamError ==
  (FailedMidStream /\ toolCallsInProgress # <<>>) =>
    /\ dispatchPos = 0
    /\ imageCalls = <<>>
    /\ DispatchFrames = <<>>
    /\ \A i \in 1..Len(frames) : ~IsImage(frames[i]) /\ ~IsYoutube(frames[i])
    /\ logData.imageGenerationError = Undefined
    /\ logData.youtubeError = Undefined

\* C37 witness: a complete generate_image call and a complete video call
\* were assembled, then the iterator raised; the only frame is the error
\* frame and no image request was made.
C37_Witness ==
  /\ FailedMidStream
  /\ Len(toolCallsInProgress) = 2
  /\ \E k \in 1..2 : /\ toolCallsInProgress[k].name = "generate_image"
                      /\ toolCallsInProgress[k].arguments = ArgsOpen \o ArgsClose
  /\ \E k \in 1..2 : toolCallsInProgress[k].name = "show_youtube_video"
  /\ imageCalls = <<>>
  /\ frames = <<[error |-> "socket hang up"]>>

\* C38: on every exit path of streamChat the response is ended exactly
\* once and no frame is written after it was ended, also when a step that
\* follows the [DONE] write inside the same try fails: res.end() is never
\* called twice, the frames written are those present at the first
\* res.end(), and a handler that has returned has ended its stream.
C38_Original_EndedExactlyOnce ==
  /\ Len(ended) <= 1
  /\ ended # <<>> => Len(frames) = ended[1]
  /\ (pc = "done" /\ frames # <<>>) => Len(ended) = 1

====
